---- MODULE Spec2Model ----
(***************************************************************************)
(* Model of the recurrence-rule date engine of go-task-manager             *)
(* (internal/services/datecalc.go: AfterNow, matchesMDay, NextDate).       *)
(*                                                                         *)
(* A time.Time value is an integer number of hours since                   *)
(* 0001-01-01 00:00 UTC (the zero time.Time).  Texts (date texts, rule     *)
(* texts) are sequences of one-character strings, so that strings.Split,   *)
(* strconv.Atoi, time.Parse and Time.Format are computed, not assumed.     *)
(* NextDate is executed step by step: one action for the parsing and       *)
(* validation prefix, one action per loop iteration, one for the return.   *)
(*                                                                         *)
(* The HTTP server (packages db and handlers) is modelled with its table,  *)
(* its clock and its requests: the handlers of add, get, delete and done,  *)
(* one action per SQL statement they run.                                  *)
(***************************************************************************)
EXTENDS Integers, Sequences, FiniteSets, TLC

VARIABLES
    now,            \* argument now (time.Time, hours since the zero time)
    dstart,         \* argument dstart (text)
    repeat,         \* argument repeat (text)
    pc,             \* position inside NextDate
    date,           \* local variable date
    candidateDate,  \* local variable candidateDate (cases "w" and "m")
    interval,       \* local variable interval (case "d")
    weekdays,       \* local variable weekdays (case "w")
    days,           \* local variable days (case "m")
    months,         \* local variable months (case "m")
    iters,          \* completed iterations of the current search loop
    result,         \* returned text
    err,            \* returned error ("nil" when there is none)
    other,          \* arguments and local variables of a second NextDate
                    \* call that is suspended while the first one runs
    tasks,          \* table scheduler: row id -> date, title, comment, repeat
    lastID,         \* greatest row id ever given out (AUTOINCREMENT)
    clock,          \* time.Now() (hours since the zero time)
    nreq,           \* number of requests received so far
    reqs,           \* the requests in flight: handler position, local
                    \* variables and response of each
    boot,           \* start of the process: the .env file, the environment,
                    \* the variables of package config, position in LoadEnv
    auth,           \* the request in the Auth middleware or in handleSignIn
    zone            \* time.Local: hours that local time is ahead of UTC

\* The arguments and the local variables of the running NextDate call.
callVars == <<now, dstart, repeat, pc, date, candidateDate, interval,
              weekdays, days, months, iters, result, err>>

\* The state of the HTTP server: the table, the clock and the requests.
apiVars == <<tasks, lastID, clock, nreq, reqs>>

\* The configuration of the process, its time zone and the authentication
\* of a request.
bootVars == <<boot, auth, zone>>

vars == <<callVars, other, apiVars, bootVars>>

-----------------------------------------------------------------------------
(* Calendar primitives of package time, as used by datecalc.go.            *)

HoursPerDay == 24

Digits == {"0", "1", "2", "3", "4", "5", "6", "7", "8", "9"}

DigitVal(c) ==
    CASE c = "0" -> 0 [] c = "1" -> 1 [] c = "2" -> 2 [] c = "3" -> 3
      [] c = "4" -> 4 [] c = "5" -> 5 [] c = "6" -> 6 [] c = "7" -> 7
      [] c = "8" -> 8 [] c = "9" -> 9

DigitChar(n) ==
    CASE n = 0 -> "0" [] n = 1 -> "1" [] n = 2 -> "2" [] n = 3 -> "3"
      [] n = 4 -> "4" [] n = 5 -> "5" [] n = 6 -> "6" [] n = 7 -> "7"
      [] n = 8 -> "8" [] n = 9 -> "9"

isLeap(year) == year % 4 = 0 /\ (year % 100 # 0 \/ year % 400 = 0)

\* daysBefore[m] is the number of days of a non-leap year before month m.
daysBefore == <<0, 31, 59, 90, 120, 151, 181, 212, 243, 273, 304, 334, 365>>

\* Days from 0001-01-01 to January 1 of year.
daysSinceEpoch(year) ==
    LET y == year - 1
    IN  365 * y + (y \div 4) - (y \div 100) + (y \div 400)

\* time.Date(year, month, day, hour, 0, 0, 0, time.UTC): month and day may
\* be outside their usual ranges and are normalised.
Date(year, month, day, hour) ==
    LET m0 == month - 1
        y  == year + (m0 \div 12)
        m  == (m0 % 12) + 1
        d  == daysSinceEpoch(y) + daysBefore[m]
              + (IF isLeap(y) /\ m >= 3 THEN 1 ELSE 0) + (day - 1)
    IN  d * HoursPerDay + hour

\* Time.Date(): the civil date <<year, month, day>> of an instant.
Civil(t) ==
    LET d0   == t \div HoursPerDay
        n400 == d0 \div 146097
        d1   == d0 - 146097 * n400
        q100 == d1 \div 36524
        n100 == q100 - (q100 \div 4)
        d2   == d1 - 36524 * n100
        n4   == d2 \div 1461
        d3   == d2 - 1461 * n4
        q1   == d3 \div 365
        n1   == q1 - (q1 \div 4)
        yday == d3 - 365 * n1
        year == 400 * n400 + 100 * n100 + 4 * n4 + n1 + 1
        leap == isLeap(year)
        dd   == IF leap /\ yday > 59 THEN yday - 1 ELSE yday
        mm   == dd \div 31
        mon  == IF dd >= daysBefore[mm + 2] THEN mm + 2 ELSE mm + 1
    IN  IF leap /\ yday = 59
          THEN <<year, 2, 29>>
          ELSE <<year, mon, dd - daysBefore[mon] + 1>>

Year(t)  == Civil(t)[1]
Month(t) == Civil(t)[2]
Day(t)   == Civil(t)[3]
Clock(t) == t % HoursPerDay

\* Weekdays numbered from Monday = 0.
WeekdayFromMonday(t) == (t \div HoursPerDay) % 7

\* Time.Weekday(): 0 = Sunday .. 6 = Saturday (0001-01-01 is a Monday).
Weekday(t) == ((t \div HoursPerDay) + 1) % 7

\* Time.AddDate(years, months, days).
AddDate(t, years, mons, ds) ==
    Date(Year(t) + years, Month(t) + mons, Day(t) + ds, Clock(t))

\* Time.Truncate(24 * time.Hour).
Truncate(t) == t - (t % HoursPerDay)

-----------------------------------------------------------------------------
(* Text primitives: strings.Split, strconv.Atoi, time.Parse, Time.Format.  *)

\* Index of the first occurrence of the character sep in s at or after i,
\* Len(s) + 1 when there is none.
RECURSIVE IndexFrom(_, _, _)
IndexFrom(s, sep, i) ==
    IF i > Len(s) THEN Len(s) + 1
    ELSE IF s[i] = sep THEN i
    ELSE IndexFrom(s, sep, i + 1)

\* strings.Split(s, sep) for a one-character separator: the pieces between
\* the separators, empty pieces included; at least one piece.
RECURSIVE Split(_, _)
Split(s, sep) ==
    LET i == IndexFrom(s, sep, 1)
    IN  IF i > Len(s) THEN <<s>>
        ELSE <<SubSeq(s, 1, i - 1)>> \o Split(SubSeq(s, i + 1, Len(s)), sep)

AllDigits(s) == \A i \in 1..Len(s) : s[i] \in Digits

RECURSIVE DigitsVal(_)
DigitsVal(s) ==
    IF Len(s) = 0 THEN 0
    ELSE 10 * DigitsVal(SubSeq(s, 1, Len(s) - 1)) + DigitVal(s[Len(s)])

\* The digit text without its leading zeros.
Significant(s) ==
    CHOOSE r \in
        {IF nz = {} THEN <<>>
         ELSE SubSeq(s, CHOOSE i \in nz : \A j \in nz : i <= j, Len(s)) :
            nz \in {{i \in 1..Len(s) : s[i] # "0"}}} : TRUE

\* a <= b as numbers, for two digit texts without leading zeros.
DigitsLeq(a, b) ==
    \/ Len(a) < Len(b)
    \/ /\ Len(a) = Len(b)
       /\ \/ a = b
          \/ \E i \in 1..Len(a) :
                /\ SubSeq(a, 1, i - 1) = SubSeq(b, 1, i - 1)
                /\ DigitVal(a[i]) < DigitVal(b[i])

\* 1<<63 - 1 and 1<<63, the largest magnitudes of an int.
MaxInt64Text ==
    <<"9", "2", "2", "3", "3", "7", "2", "0", "3", "6",
      "8", "5", "4", "7", "7", "5", "8", "0", "7">>
MinInt64Text ==
    <<"9", "2", "2", "3", "3", "7", "2", "0", "3", "6",
      "8", "5", "4", "7", "7", "5", "8", "0", "8">>

\* The digits body, with the sign neg, are a number of the range of int.
InInt64(neg, body) ==
    \/ Len(body) < Len(MaxInt64Text)
    \/ DigitsLeq(Significant(body),
                 IF neg THEN MinInt64Text ELSE MaxInt64Text)

\* strconv.Atoi(s): an optional sign followed by one or more decimal digits
\* that are a number of the range of int (64 bits); anything else is an
\* error (syntax or range).
Atoi(s) ==
    LET signed == Len(s) > 0 /\ s[1] \in {"+", "-"}
        body   == IF signed THEN SubSeq(s, 2, Len(s)) ELSE s
    IN  IF Len(body) = 0 \/ ~AllDigits(body)
          THEN [ok |-> FALSE, val |-> 0]
        ELSE IF ~InInt64(signed /\ s[1] = "-", body)
          THEN [ok |-> FALSE, val |-> 0]
          ELSE [ok |-> TRUE,
                val |-> IF signed /\ s[1] = "-" THEN - DigitsVal(body)
                        ELSE DigitsVal(body)]

\* Number of days of the month (year, month).
daysIn(year, month) ==
    IF month = 2 /\ isLeap(year) THEN 29
    ELSE daysBefore[month + 1] - daysBefore[month]

\* time.Parse(DateFormat, s) with DateFormat = "20060102": exactly four
\* digits of year, two of month, two of day, a month in 1..12 and a day that
\* exists in that month; the result is midnight UTC of that day.
ParseDate(s) ==
    IF Len(s) # 8 \/ ~AllDigits(s) THEN [ok |-> FALSE, t |-> 0]
    ELSE LET y == DigitsVal(SubSeq(s, 1, 4))
             m == DigitsVal(SubSeq(s, 5, 6))
             d == DigitsVal(SubSeq(s, 7, 8))
         IN  IF m < 1 \/ m > 12 \/ d < 1 THEN [ok |-> FALSE, t |-> 0]
             ELSE IF d > daysIn(y, m) THEN [ok |-> FALSE, t |-> 0]
             ELSE [ok |-> TRUE, t |-> Date(y, m, d, 0)]

\* The decimal digits of n >= 0, zero-padded on the left to width characters
\* (never truncated).
RECURSIVE appendInt(_, _)
appendInt(n, width) ==
    IF n < 10 /\ width <= 1 THEN <<DigitChar(n)>>
    ELSE appendInt(n \div 10, width - 1) \o <<DigitChar(n % 10)>>

\* Time.Format(DateFormat).
Format(t) ==
    appendInt(Year(t), 4) \o appendInt(Month(t), 2) \o appendInt(Day(t), 2)

-----------------------------------------------------------------------------
(* datecalc.go                                                             *)

\* AfterNow with a comparison that also accepts the day of now.
AfterNowNotStrict(d, n) == Truncate(d) >= Truncate(n)

\* AfterNow(date, now): date is strictly later than now, both truncated to
\* the day.
AfterNow(d, n) == Truncate(d) > Truncate(n)

\* lastDay computed as day 0 of date's own month, which is the last day of
\* the month before.
lastDayOfPreviousMonth(d) == Day(Date(Year(d), Month(d), 0, 0))

\* lastDay of matchesMDay: the day number of the last day of date's month,
\* computed as day 0 of the following month.
lastDay(d) == Day(Date(Year(d), Month(d) + 1, 0, 0))

\* matchesMDay(date, days).
matchesMDay(d, ds) ==
    \E i \in 1..Len(ds) :
        \/ ds[i] >= 1 /\ ds[i] <= 31 /\ Day(d) = ds[i]
        \/ ds[i] = -1 /\ Day(d) = lastDay(d)
        \/ ds[i] = -2 /\ Day(d) = lastDay(d) - 1

\* The validation prefix of NextDate (everything before the search loops):
\* the error it returns ("nil" when the rule is accepted), the parsed start
\* date and the parsed fields of the rule.
Rejected(e) ==
    [err |-> e, date |-> 0, kind |-> "", interval |-> 0,
     weekdays |-> <<>>, days |-> <<>>, months |-> <<>>]

Accepted(d, k, n, ws, ds, ms) ==
    [err |-> "nil", date |-> d, kind |-> k, interval |-> n,
     weekdays |-> ws, days |-> ds, months |-> ms]

\* case "d" with a range test that lets the interval 0 through.
ValidateDAcceptsZero(d, parts) ==
    IF Len(parts) # 2 THEN Rejected("d_format")
    ELSE LET a == Atoi(parts[2])
         IN  IF ~a.ok THEN Rejected("d_atoi")
             ELSE IF a.val < 0 \/ a.val > 400 THEN Rejected("d_range")
             ELSE Accepted(d, "d", a.val, <<>>, <<>>, <<>>)

\* case "d": exactly one token after d, an integer in [1, 400].
ValidateD(d, parts) ==
    IF Len(parts) # 2 THEN Rejected("d_format")
    ELSE LET a == Atoi(parts[2])
         IN  IF ~a.ok THEN Rejected("d_atoi")
             ELSE IF a.val <= 0 \/ a.val > 400 THEN Rejected("d_range")
             ELSE Accepted(d, "d", a.val, <<>>, <<>>, <<>>)

\* case "w" without the conversion of 7 (Sunday) to 0.
ValidateWKeepsSeven(d, parts) ==
    IF Len(parts) < 2 THEN Rejected("w_missing")
    ELSE LET dayStr == Split(parts[2], ",")
             bad    == {i \in 1..Len(dayStr) :
                           \/ ~Atoi(dayStr[i]).ok
                           \/ Atoi(dayStr[i]).val < 1
                           \/ Atoi(dayStr[i]).val > 7}
         IN  IF bad # {} THEN Rejected("w_value")
             ELSE Accepted(d, "w", 0,
                           [i \in 1..Len(dayStr) |-> Atoi(dayStr[i]).val],
                           <<>>, <<>>)

\* case "w": a comma list of integers in [1, 7]; 7 (Sunday) becomes 0.
ValidateW(d, parts) ==
    IF Len(parts) < 2 THEN Rejected("w_missing")
    ELSE LET dayStr == Split(parts[2], ",")
             bad    == {i \in 1..Len(dayStr) :
                           \/ ~Atoi(dayStr[i]).ok
                           \/ Atoi(dayStr[i]).val < 1
                           \/ Atoi(dayStr[i]).val > 7}
         IN  IF bad # {} THEN Rejected("w_value")
             ELSE Accepted(d, "w", 0,
                           [i \in 1..Len(dayStr) |->
                               IF Atoi(dayStr[i]).val = 7 THEN 0
                               ELSE Atoi(dayStr[i]).val],
                           <<>>, <<>>)

\* The list validation passing over the empty elements of the list.
ListErrorSkipsEmpty(strs, lo, hi, errAtoi, errRange) ==
    LET bad == {i \in 1..Len(strs) :
                   /\ strs[i] # <<>>
                   /\ \/ ~Atoi(strs[i]).ok
                      \/ Atoi(strs[i]).val < lo
                      \/ Atoi(strs[i]).val > hi}
    IN  IF bad = {} THEN "nil"
        ELSE LET i == CHOOSE j \in bad : \A k \in bad : j <= k
             IN  IF ~Atoi(strs[i]).ok THEN errAtoi ELSE errRange

\* The error of the first element of a comma list that is not an integer
\* (errAtoi) or is outside lo..hi (errRange); "nil" when there is none.
ListError(strs, lo, hi, errAtoi, errRange) ==
    LET bad == {i \in 1..Len(strs) :
                   \/ ~Atoi(strs[i]).ok
                   \/ Atoi(strs[i]).val < lo
                   \/ Atoi(strs[i]).val > hi}
    IN  IF bad = {} THEN "nil"
        ELSE LET i == CHOOSE j \in bad : \A k \in bad : j <= k
             IN  IF ~Atoi(strs[i]).ok THEN errAtoi ELSE errRange

\* case "m" that leaves the month list to be checked by the search.
ValidateMDaysOnly(d, parts) ==
    IF Len(parts) < 2 THEN Rejected("m_missing")
    ELSE LET dayPart   == Split(parts[2], ",")
             monthPart == IF Len(parts) > 2 THEN Split(parts[3], ",")
                          ELSE <<>>
             dayErr    == ListError(dayPart, -2, 31, "m_day_atoi",
                                    "m_day_range")
         IN  IF dayErr # "nil" THEN Rejected(dayErr)
             ELSE Accepted(d, "m", 0, <<>>,
                           [i \in 1..Len(dayPart) |-> Atoi(dayPart[i]).val],
                           [i \in 1..Len(monthPart) |->
                               Atoi(monthPart[i]).val])

\* case "m": a comma list of days in [-2, 31] and an optional comma list of
\* months in [1, 12].
ValidateM(d, parts) ==
    IF Len(parts) < 2 THEN Rejected("m_missing")
    ELSE LET dayPart   == Split(parts[2], ",")
             monthPart == IF Len(parts) > 2 THEN Split(parts[3], ",")
                          ELSE <<>>
             dayErr    == ListError(dayPart, -2, 31, "m_day_atoi",
                                    "m_day_range")
             monthErr  == ListError(monthPart, 1, 12, "m_month_atoi",
                                    "m_month_range")
         IN  IF dayErr # "nil" THEN Rejected(dayErr)
             ELSE IF monthErr # "nil" THEN Rejected(monthErr)
             ELSE Accepted(d, "m", 0, <<>>,
                           [i \in 1..Len(dayPart) |-> Atoi(dayPart[i]).val],
                           [i \in 1..Len(monthPart) |->
                               Atoi(monthPart[i]).val])

\* The validation prefix with an unknown first token treated as "y".
ValidateUnknownAsYearly(ds, rep) ==
    LET p == ParseDate(ds)
    IN  IF ~p.ok THEN Rejected("parse_date")
        ELSE IF rep = <<>> THEN Rejected("rule_missing")
        ELSE LET parts == Split(rep, " ")
             IN  CASE parts[1] = <<"d">> -> ValidateD(p.t, parts)
                   [] parts[1] = <<"w">> -> ValidateW(p.t, parts)
                   [] parts[1] = <<"m">> -> ValidateM(p.t, parts)
                   [] OTHER -> Accepted(p.t, "y", 0, <<>>, <<>>, <<>>)

Validate(ds, rep) ==
    LET p == ParseDate(ds)
    IN  IF ~p.ok THEN Rejected("parse_date")
        ELSE IF rep = <<>> THEN Rejected("rule_missing")
        ELSE LET parts == Split(rep, " ")
             IN  CASE parts[1] = <<"d">> -> ValidateD(p.t, parts)
                   [] parts[1] = <<"y">> ->
                          Accepted(p.t, "y", 0, <<>>, <<>>, <<>>)
                   [] parts[1] = <<"w">> -> ValidateW(p.t, parts)
                   [] parts[1] = <<"m">> -> ValidateM(p.t, parts)
                   [] OTHER -> Rejected("unsupported")

-----------------------------------------------------------------------------
(* The calls of NextDate that are explored.                                *)

\* The longest run of the pattern loop of case "m" that is followed; the
\* loop itself has no bound.
MaxScan == 3000

DateText(n) == appendInt(n, 8)
At(n, hour) == ParseDate(DateText(n)).t + hour
Num(n) == IF n < 0 THEN <<"-">> \o appendInt(-n, 1) ELSE appendInt(n, 1)

RECURSIVE List(_)
List(ns) ==
    IF Len(ns) = 1 THEN Num(ns[1])
    ELSE Num(ns[1]) \o <<",">> \o List(Tail(ns))

RuleD(n)      == <<"d", " ">> \o Num(n)
RuleY         == <<"y">>
RuleW(ws)     == <<"w", " ">> \o List(ws)
RuleM(ds)     == <<"m", " ">> \o List(ds)
RuleMM(ds, ms) == <<"m", " ">> \o List(ds) \o <<" ">> \o List(ms)

\* Start dates and reference instants a few weeks apart, around the leap
\* day of 2024.
NearStarts == {DateText(20231231), DateText(20240101), DateText(20240110),
               DateText(20240131), DateText(20240229)}

NearNows == {At(20231220, 0), At(20240101, 0), At(20240110, 13),
             At(20240227, 0), At(20240301, 8)}

NearRules ==
    {RuleD(1), RuleD(7), RuleD(30), RuleD(400), RuleY,
     RuleW(<<1>>), RuleW(<<2>>), RuleW(<<3>>), RuleW(<<4>>), RuleW(<<5>>),
     RuleW(<<6>>), RuleW(<<7>>), RuleW(<<3, 6>>),
     RuleM(<<-1>>), RuleM(<<-2>>), RuleM(<<2>>), RuleM(<<31>>),
     RuleM(<<15, -1>>), RuleMM(<<1, 15>>, <<2, 6>>), RuleMM(<<30>>, <<4>>)}

\* Texts that the validation prefix rejects.
BadStarts ==
    {DateText(20240230), DateText(20241301), <<"2", "0", "2", "4">>, <<>>,
     <<"2", "0", "2", "4", "0", "1", "0", "a">>,
     <<"2", "0", "2", "4", "-", "0", "1", "-", "0", "1">>}

BadRules ==
    {<<>>, <<"q", " ", "5">>, <<"d">>, RuleD(0), RuleD(401), RuleD(-5),
     <<"d", " ", "x">>, <<"d", " ", "1", " ", "2">>,
     <<"d", " ", "9", "9", "9", "9", "9", "9", "9", "9", "9", "9",
                 "9", "9", "9", "9", "9", "9", "9", "9", "9", "9">>,
     <<"w">>, <<"w", " ">>, RuleW(<<8>>), RuleW(<<0>>), RuleW(<<1, 8>>),
     <<"w", " ", "1", ",", ",", "2">>,
     <<"m">>, <<"m", " ">>, RuleM(<<32>>), RuleM(<<-3>>), RuleM(<<1, 40>>),
     <<"m", " ", "x">>, <<"m", " ", "1", ",">>,
     RuleMM(<<1>>, <<13>>), RuleMM(<<1>>, <<0>>), RuleMM(<<1>>, <<1, 13>>),
     <<"m", " ", "1", " ", "x">>}

\* Yearly rules over several years, from a leap day and from an ordinary
\* day.
YearStarts == {DateText(20240229), DateText(20230615)}
YearNows   == {At(20240101, 0), At(20250301, 0), At(20270228, 0),
               At(20280101, 0), At(20280229, 0), At(20290101, 0)}

\* Monthly rules whose day does not exist in the listed months.
AbsentDayRules ==
    {RuleMM(<<31>>, <<2>>), RuleMM(<<30>>, <<2>>), RuleMM(<<31>>, <<4>>)}

\* Monthly rules whose day is rare or absent in the listed months, or is
\* given by a negative code or by 0.
LongRules ==
    AbsentDayRules
    \cup {RuleMM(<<29>>, <<2>>), RuleMM(<<29>>, <<1>>),
          RuleMM(<<-1>>, <<2>>), RuleMM(<<-2>>, <<1, 6>>),
          RuleMM(<<-1, 15>>, <<2>>), RuleM(<<0>>), RuleM(<<1, 0>>)}

LongCalls ==
    {<<At(20240301, 0), DateText(20240101)>>,
     <<At(20240227, 0), DateText(20240131)>>}

Inputs ==
    (NearNows \X NearStarts \X NearRules)
    \cup (NearNows \X BadStarts \X {RuleD(7)})
    \cup ({At(20240110, 13)} \X {DateText(20240101)} \X BadRules)
    \cup (YearNows \X YearStarts \X {RuleY})
    \cup {<<c[1], c[2], r>> : c \in LongCalls, r \in LongRules}
    \cup ({At(20240101, 0)} \X {DateText(20240101)} \X AbsentDayRules)
    \cup {<<At(18960301, 0), DateText(18960101), RuleMM(<<29>>, <<2>>)>>}
    \cup ({At(20240101, 0)} \X {DateText(99991231)} \X {RuleD(1), RuleY})

-----------------------------------------------------------------------------
(* NextDate, step by step.                                                 *)

\* No second call: the record kept in other when NextDate runs alone.
NoCall ==
    [now |-> 0, dstart |-> <<>>, repeat |-> <<>>, pc |-> "none", date |-> 0,
     candidateDate |-> 0, interval |-> 0, weekdays |-> <<>>, days |-> <<>>,
     months |-> <<>>, iters |-> 0, result |-> <<>>, err |-> "nil",
     preempted |-> FALSE, mine |-> FALSE]

\* The zero value of db.Task (the id is the key of the row).
NoTask == [date |-> <<>>, title |-> <<>>, comment |-> <<>>, repeat |-> <<>>]

\* The goroutines that serve requests.
Slots == {1, 2}

\* A nil slice of tasks; encoding/json writes it as null.
NilTasks == [null |-> TRUE, items |-> <<>>]

\* A goroutine that serves no request in this run.
OffSlot ==
    [op |-> "none", id |-> <<>>, indate |-> <<>>, pc |-> "off",
     task |-> NoTask, dberr |-> <<"nil">>, code |-> 0,
     search |-> <<>>, list |-> NilTasks]

\* The variables of package config before LoadEnv.
NoConfig == [Port |-> "", DatabaseURL |-> "", Password |-> "", JWTSecret |-> ""]

\* The process start is not part of the run.
NoBoot ==
    [file |-> "absent", dotenv |-> <<>>, env |-> <<>>, config |-> NoConfig,
     pc |-> "none", ret |-> "nil"]

\* No cookie, and the JWT a cookie may hold: the signing method, the key
\* of the signature, the claim exp (0 when absent) and the claim
\* password_hash (<<>> when absent).
NoCookie == [alg |-> "", key |-> "", exp |-> 0, hash |-> <<>>]

\* No request is in the middleware.
NoAuth ==
    [op |-> "none", pc |-> "off", cookie |-> NoCookie, at |-> 0, code |-> 0,
     issued |-> NoCookie]

\* The HTTP server is not running.
ServerDown ==
    /\ boot = NoBoot
    /\ auth = NoAuth
    /\ zone = 0
    /\ tasks = <<>>
    /\ lastID = 0
    /\ clock = 0
    /\ nreq = 0
    /\ reqs = [s \in Slots |-> OffSlot]

Init ==
    /\ other = NoCall
    /\ ServerDown
    /\ \E in \in Inputs :
          /\ now = in[1]
          /\ dstart = in[2]
          /\ repeat = in[3]
    /\ pc = "start"
    /\ date = 0
    /\ candidateDate = 0
    /\ interval = 0
    /\ weekdays = <<>>
    /\ days = <<>>
    /\ months = <<>>
    /\ iters = 0
    /\ result = <<>>
    /\ err = "nil"

\* The prefix with candidateDate starting one day before the start date.
ParseInputCandidateBefore ==
    /\ pc = "start"
    /\ UNCHANGED <<other, apiVars, bootVars>>
    /\ LET v == Validate(dstart, repeat)
       IN  /\ err' = v.err
           /\ date' = v.date
           /\ interval' = v.interval
           /\ weekdays' = v.weekdays
           /\ days' = v.days
           /\ months' = v.months
           /\ candidateDate' = IF v.kind \in {"w", "m"}
                                 THEN AddDate(v.date, 0, 0, -1)
                                 ELSE candidateDate
           /\ pc' = CASE v.err # "nil" -> "done"
                      [] v.kind = "d" -> "d_loop"
                      [] v.kind = "y" -> "y_loop"
                      [] v.kind = "w" -> "w_advance"
                      [] v.kind = "m" -> "m_advance"
    /\ UNCHANGED <<now, dstart, repeat, iters, result>>

\* Lines 74-105, 122-144, 172-216: parsing and validation of both texts, up
\* to the entry of the search of the rule's kind.
ParseInput ==
    /\ pc = "start"
    /\ UNCHANGED <<other, apiVars, bootVars>>
    /\ LET v == Validate(dstart, repeat)
       IN  /\ err' = v.err
           /\ date' = v.date
           /\ interval' = v.interval
           /\ weekdays' = v.weekdays
           /\ days' = v.days
           /\ months' = v.months
           /\ candidateDate' = IF v.kind \in {"w", "m"}
                                 THEN AddDate(v.date, 0, 0, 1)
                                 ELSE candidateDate
           /\ pc' = CASE v.err # "nil" -> "done"
                      [] v.kind = "d" -> "d_loop"
                      [] v.kind = "y" -> "y_loop"
                      [] v.kind = "w" -> "w_advance"
                      [] v.kind = "m" -> "m_advance"
    /\ UNCHANGED <<now, dstart, repeat, iters, result>>

\* The loop of case "d" written as a while loop: the date is tested before
\* the first addition.
DailyStepTestsFirst ==
    /\ pc = "d_loop"
    /\ UNCHANGED <<other, apiVars, bootVars>>
    /\ IF AfterNow(date, now)
         THEN /\ pc' = "return"
              /\ UNCHANGED <<date, iters>>
         ELSE /\ date' = AddDate(date, 0, 0, interval)
              /\ iters' = iters + 1
              /\ pc' = "d_loop"
    /\ UNCHANGED <<now, dstart, repeat, candidateDate, interval, weekdays,
                   days, months, result, err>>

\* Lines 108-113: one iteration of the loop of case "d".
DailyStep ==
    /\ pc = "d_loop"
    /\ UNCHANGED <<other, apiVars, bootVars>>
    /\ date' = AddDate(date, 0, 0, interval)
    /\ iters' = iters + 1
    /\ pc' = IF AfterNow(date', now) THEN "return" ELSE "d_loop"
    /\ UNCHANGED <<now, dstart, repeat, candidateDate, interval, weekdays,
                   days, months, result, err>>

\* The loop of case "y" advancing by one month instead of one year.
YearlyStepOneMonth ==
    /\ pc = "y_loop"
    /\ UNCHANGED <<other, apiVars, bootVars>>
    /\ date' = AddDate(date, 0, 1, 0)
    /\ iters' = iters + 1
    /\ pc' = IF AfterNow(date', now) THEN "return" ELSE "y_loop"
    /\ UNCHANGED <<now, dstart, repeat, candidateDate, interval, weekdays,
                   days, months, result, err>>

\* Lines 116-121: one iteration of the loop of case "y".
YearlyStep ==
    /\ pc = "y_loop"
    /\ UNCHANGED <<other, apiVars, bootVars>>
    /\ date' = AddDate(date, 1, 0, 0)
    /\ iters' = iters + 1
    /\ pc' = IF AfterNow(date', now) THEN "return" ELSE "y_loop"
    /\ UNCHANGED <<now, dstart, repeat, candidateDate, interval, weekdays,
                   days, months, result, err>>

\* The loop of lines 147-152 written as a while loop: candidateDate is
\* compared with now before the first addition.
WeeklyAdvanceTestsFirst ==
    /\ pc = "w_advance"
    /\ UNCHANGED <<other, apiVars, bootVars>>
    /\ IF AfterNow(candidateDate, now)
         THEN pc' = "w_loop" /\ UNCHANGED candidateDate
         ELSE candidateDate' = AddDate(candidateDate, 0, 0, 1)
              /\ UNCHANGED pc
    /\ UNCHANGED <<now, dstart, repeat, date, interval, weekdays, days,
                   months, iters, result, err>>

\* Lines 147-152: one iteration of the loop that moves candidateDate past
\* now, case "w".
WeeklyAdvance ==
    /\ pc = "w_advance"
    /\ UNCHANGED <<other, apiVars, bootVars>>
    /\ candidateDate' = AddDate(candidateDate, 0, 0, 1)
    /\ pc' = IF AfterNow(candidateDate', now) THEN "w_loop" ELSE "w_advance"
    /\ UNCHANGED <<now, dstart, repeat, date, interval, weekdays, days,
                   months, iters, result, err>>

\* Lines 156-170: one iteration of loop, the weekday test of candidateDate.
WeeklyTest ==
    /\ pc = "w_loop"
    /\ UNCHANGED <<other, apiVars, bootVars>>
    /\ IF \E i \in 1..Len(weekdays) : Weekday(candidateDate) = weekdays[i]
         THEN /\ date' = candidateDate
              /\ pc' = "return"
              /\ UNCHANGED <<candidateDate, iters>>
         ELSE /\ candidateDate' = AddDate(candidateDate, 0, 0, 1)
              /\ iters' = iters + 1
              /\ UNCHANGED <<date, pc>>
    /\ UNCHANGED <<now, dstart, repeat, interval, weekdays, days, months,
                   result, err>>

\* Lines 219-224: one iteration of the loop that moves candidateDate past
\* now, case "m".
MonthlyAdvance ==
    /\ pc = "m_advance"
    /\ UNCHANGED <<other, apiVars, bootVars>>
    /\ candidateDate' = AddDate(candidateDate, 0, 0, 1)
    /\ pc' = IF AfterNow(candidateDate', now) THEN "m_loop" ELSE "m_advance"
    /\ UNCHANGED <<now, dstart, repeat, date, interval, weekdays, days,
                   months, iters, result, err>>

\* The test of one candidate in loopTwo (lines 230-256): without a month
\* list matchesMDay decides; with a month list the month and the day of the
\* candidate are compared with the listed numbers.
monthlyHit(c, ds, ms) ==
    \/ Len(ms) = 0 /\ matchesMDay(c, ds)
    \/ \E i \in 1..Len(ms) : \E j \in 1..Len(ds) :
          Month(c) = ms[i] /\ Day(c) = ds[j]

\* Lines 228-259: one iteration of loopTwo.
MonthlyTest ==
    /\ pc = "m_loop"
    /\ UNCHANGED <<other, apiVars, bootVars>>
    /\ IF monthlyHit(candidateDate, days, months)
         THEN /\ date' = candidateDate
              /\ pc' = "return"
              /\ UNCHANGED <<candidateDate, iters>>
         ELSE /\ iters < MaxScan
              /\ candidateDate' = AddDate(candidateDate, 0, 0, 1)
              /\ iters' = iters + 1
              /\ UNCHANGED <<date, pc>>
    /\ UNCHANGED <<now, dstart, repeat, interval, weekdays, days, months,
                   result, err>>

\* Line 266: the result is formatted and returned.
Return ==
    /\ pc = "return"
    /\ UNCHANGED <<other, apiVars, bootVars>>
    /\ result' = Format(date)
    /\ pc' = "done"
    /\ UNCHANGED <<now, dstart, repeat, date, candidateDate, interval,
                   weekdays, days, months, iters, err>>

Next ==
    \/ ParseInput
    \/ DailyStep
    \/ YearlyStep
    \/ WeeklyAdvance
    \/ WeeklyTest
    \/ MonthlyAdvance
    \/ MonthlyTest
    \/ Return

Spec == Init /\ [][Next]_vars

-----------------------------------------------------------------------------
(* NextDate as a function of its three arguments: the same statements as   *)
(* the step-by-step machine, each loop a recursive operator.  A local      *)
(* variable is bound to its value (x \in {e}) where the code assigns it,   *)
(* so that e is computed once.                                             *)

\* Lines 108-113: the loop of case "d".
RECURSIVE dailyFrom(_, _, _)
dailyFrom(d, n, nw) ==
    CHOOSE r \in {IF AfterNow(d2, nw) THEN d2 ELSE dailyFrom(d2, n, nw) :
                     d2 \in {AddDate(d, 0, 0, n)}} : TRUE

\* Lines 116-121: the loop of case "y".
RECURSIVE yearlyFrom(_, _)
yearlyFrom(d, nw) ==
    CHOOSE r \in {IF AfterNow(d2, nw) THEN d2 ELSE yearlyFrom(d2, nw) :
                     d2 \in {AddDate(d, 1, 0, 0)}} : TRUE

\* Lines 147-152 and 219-224: the loop that moves candidateDate past now.
RECURSIVE advancePast(_, _)
advancePast(c, nw) ==
    CHOOSE r \in {IF AfterNow(c2, nw) THEN c2 ELSE advancePast(c2, nw) :
                     c2 \in {AddDate(c, 0, 0, 1)}} : TRUE

\* Lines 156-170: the weekday loop.
RECURSIVE weeklyFrom(_, _)
weeklyFrom(c, ws) ==
    IF \E i \in 1..Len(ws) : Weekday(c) = ws[i] THEN c
    ELSE CHOOSE r \in {weeklyFrom(c2, ws) :
                          c2 \in {AddDate(c, 0, 0, 1)}} : TRUE

\* Lines 228-259: loopTwo.
RECURSIVE monthlyFrom(_, _, _)
monthlyFrom(c, ds, ms) ==
    IF monthlyHit(c, ds, ms) THEN c
    ELSE CHOOSE r \in {monthlyFrom(c2, ds, ms) :
                          c2 \in {AddDate(c, 0, 0, 1)}} : TRUE

\* The search of an accepted rule v (lines 107-259) and the formatting of
\* its result (line 266).
searchFrom(v, nw) ==
    CASE v.kind = "d" -> dailyFrom(v.date, v.interval, nw)
      [] v.kind = "y" -> yearlyFrom(v.date, nw)
      [] v.kind = "w" ->
           CHOOSE r \in {weeklyFrom(c, v.weekdays) :
                            c \in {advancePast(AddDate(v.date, 0, 0, 1),
                                               nw)}} : TRUE
      [] v.kind = "m" ->
           CHOOSE r \in {monthlyFrom(c, v.days, v.months) :
                            c \in {advancePast(AddDate(v.date, 0, 0, 1),
                                               nw)}} : TRUE

\* NextDate(now, dstart, repeat): the returned text and error.
NextDateFn(nw, ds, rep) ==
    CHOOSE r \in {IF v.err # "nil" THEN [text |-> <<>>, err |-> v.err]
                  ELSE [text |-> Format(searchFrom(v, nw)), err |-> "nil"] :
                     v \in {Validate(ds, rep)}} : TRUE

-----------------------------------------------------------------------------
(* Two NextDate calls on two goroutines.  Each call has its own arguments  *)
(* and local variables (the function reads no package-level variable); the *)
(* scheduler may suspend the running call at any statement and resume the  *)
(* other one.                                                              *)

ConcInputs ==
    {At(20240110, 13)}
    \X {DateText(20240101), DateText(20240108)}
    \X {RuleD(7), RuleY, RuleW(<<2>>), RuleM(<<12>>), RuleD(0)}

\* The call that starts on the input in.
StartCall(in) ==
    [NoCall EXCEPT !.now = in[1], !.dstart = in[2], !.repeat = in[3],
                   !.pc = "start"]

ConcInit ==
    /\ ServerDown
    /\ \E a \in ConcInputs, b \in ConcInputs :
          /\ now = a[1]
          /\ dstart = a[2]
          /\ repeat = a[3]
          /\ other = StartCall(b)
    /\ pc = "start"
    /\ date = 0
    /\ candidateDate = 0
    /\ interval = 0
    /\ weekdays = <<>>
    /\ days = <<>>
    /\ months = <<>>
    /\ iters = 0
    /\ result = <<>>
    /\ err = "nil"

\* The running call as a record; preempted tells that the call has been
\* suspended between its first and its last statement.
Suspended ==
    [now |-> now, dstart |-> dstart, repeat |-> repeat, pc |-> pc,
     date |-> date, candidateDate |-> candidateDate, interval |-> interval,
     weekdays |-> weekdays, days |-> days, months |-> months,
     iters |-> iters, result |-> result, err |-> err,
     preempted |-> other.mine \/ pc \notin {"start", "done"},
     mine |-> other.preempted]

\* A context switch in which date and candidateDate are not part of the
\* context of a call, as if they were package-level variables.
SwitchSharingDates ==
    /\ other.pc # "none"
    /\ now' = other.now
    /\ dstart' = other.dstart
    /\ repeat' = other.repeat
    /\ pc' = other.pc
    /\ interval' = other.interval
    /\ weekdays' = other.weekdays
    /\ days' = other.days
    /\ months' = other.months
    /\ iters' = other.iters
    /\ result' = other.result
    /\ err' = other.err
    /\ other' = Suspended
    /\ UNCHANGED <<date, candidateDate, apiVars, bootVars>>

\* A context switch: the running call is suspended with its arguments and
\* local variables, the other call resumes with its own.
Switch ==
    /\ other.pc # "none"
    /\ now' = other.now
    /\ dstart' = other.dstart
    /\ repeat' = other.repeat
    /\ pc' = other.pc
    /\ date' = other.date
    /\ candidateDate' = other.candidateDate
    /\ interval' = other.interval
    /\ weekdays' = other.weekdays
    /\ days' = other.days
    /\ months' = other.months
    /\ iters' = other.iters
    /\ result' = other.result
    /\ err' = other.err
    /\ other' = Suspended
    /\ UNCHANGED <<apiVars, bootVars>>

ConcNext ==
    \/ Next
    \/ Switch

ConcSpec == ConcInit /\ [][ConcNext]_vars

-----------------------------------------------------------------------------
(* Package db: the table scheduler and its statements.  Every function     *)
(* runs one SQL statement, which SQLite executes atomically; fault tells   *)
(* that the statement itself fails (closed connection, locked file).       *)
(* An error value is the tuple of the pieces of its message.               *)

\* sql.ErrNoRows.
ErrNoRows == <<"sql: no rows in result set">>

\* The white space that SQLite skips around a number: the characters
\* 0x09 to 0x0D and the space.
SqlSpace == {" ", "\t", "\n", "", "\f", "\r"}

\* The text without its leading and trailing white space.
Trimmed(s) ==
    CHOOSE r \in
        {IF ns = {} THEN <<>>
         ELSE SubSeq(s, CHOOSE i \in ns : \A j \in ns : i <= j,
                        CHOOSE i \in ns : \A j \in ns : i >= j) :
            ns \in {{i \in 1..Len(s) : s[i] \notin SqlSpace}}} : TRUE

RECURSIVE Pow10(_)
Pow10(n) == IF n = 0 THEN 1 ELSE 10 * Pow10(n - 1)

RECURSIVE Pow2(_)
Pow2(n) == IF n = 0 THEN 1 ELSE 2 * Pow2(n - 1)

\* The exponent of the largest power of two that is at most k (0 for k < 2).
RECURSIVE Log2(_)
Log2(k) == IF k < 2 THEN 0 ELSE 1 + Log2(k \div 2)

\* v / 2^53, rounded down, and whether the division is exact.
Shr53(v) == (v \div Pow2(27)) \div Pow2(26)
Div53(v) == v % Pow2(27) = 0 /\ (v \div Pow2(27)) % Pow2(26) = 0

\* The double (binary64: 53 bits of mantissa, exponents up to 1023) nearest
\* to num / den is the integer k >= 1; a value half way between two doubles
\* goes to the one with the even mantissa.
RoundsTo(num, den, k) ==
    \E e \in {Log2(k)} : \E d \in {num - k * den} : \E w \in {Pow2(e) * den} :
        /\ e <= 1023
        /\ e <= 52 \/ k % Pow2(e - 52) = 0
        /\ \E even \in {e < 52 \/ (e >= 52 /\ (k \div Pow2(e - 52)) % 2 = 0)} :
              IF d >= 0
                THEN /\ d <= Shr53(w)
                     /\ (d = Shr53(w) /\ Div53(w)) => even
              ELSE IF k = Pow2(e)
                THEN 2 * (- d) <= Shr53(w)
              ELSE /\ - d <= Shr53(w)
                   /\ (- d = Shr53(w) /\ Div53(w)) => even

\* The two doubles of integer value around num / den >= 1.
Around(num, den) ==
    CHOOSE r \in
        {{f - (f % sp), f - (f % sp) + sp} :
            f \in {num \div den},
            sp \in {IF Log2(num \div den) <= 52 THEN 1
                    ELSE Pow2(Log2(num \div den) - 52)}} : TRUE

\* The integer other than 0 that is the double nearest to num / den, if
\* that double is one.  A number below 1 that does not round to 1 is read
\* as 0 or as a fraction (near the smallest doubles the versions of SQLite
\* differ on which); either way it is the id of no row, the ids of the
\* table starting at 1.
SqlDouble(sign, num, den) ==
    IF num < den
      THEN IF RoundsTo(num, den, 1) THEN [ok |-> TRUE, val |-> sign]
           ELSE [ok |-> FALSE, val |-> 0]
    ELSE IF \E k \in Around(num, den) : RoundsTo(num, den, k)
      THEN [ok |-> TRUE,
            val |-> sign * (CHOOSE k \in Around(num, den) :
                               RoundsTo(num, den, k))]
    ELSE [ok |-> FALSE, val |-> 0]

\* The number sign * n * 10^sc of a text that is not an integer of 64 bits,
\* which SQLite reads as a double, the one nearest to its significand n
\* scaled by 10^sc: the integer other than 0 it is, if it is one.
SqlScaled(sign, n, sc) ==
    IF sc >= 0 THEN SqlDouble(sign, n * Pow10(sc), 1)
    ELSE SqlDouble(sign, n, Pow10(- sc))

\* (LARGEST_UINT64 - 9) / 10 - 1 = 1844674407370955159: sqlite3AtoF takes
\* another digit into its 64-bit significand while the significand is at
\* most this number, and drops every digit after that.
SqlSignificandMax ==
    <<"1", "8", "4", "4", "6", "7", "4", "4", "0", "7",
      "3", "7", "0", "9", "5", "5", "1", "5", "9">>

\* The significand of the digits p takes no further digit.
SqlFull(p) == ~DigitsLeq(Significant(p), SqlSignificandMax)

\* The number of leading digits of ds that make the significand.
SqlKept(ds) ==
    IF Len(ds) < Len(SqlSignificandMax) THEN Len(ds)
    ELSE CHOOSE j \in 0..Len(ds) :
            /\ j = Len(ds) \/ SqlFull(SubSeq(ds, 1, j))
            /\ \A i \in 0..(j - 1) : ~SqlFull(SubSeq(ds, 1, i))

\* The exponent of the digits ds: sqlite3AtoF stops counting at 10000.
RECURSIVE SqlExpVal(_)
SqlExpVal(ds) ==
    IF Len(ds) = 0 THEN 0
    ELSE CHOOSE r \in
            {IF e < 10000 THEN 10 * e + DigitVal(ds[Len(ds)]) ELSE 10000 :
                e \in {SqlExpVal(SubSeq(ds, 1, Len(ds) - 1))}} : TRUE

\* The exponent text after "e": an optional sign and one or more digits.
SqlExponent(x) ==
    CHOOSE r \in
        {IF Len(body) = 0 \/ ~AllDigits(body) THEN [ok |-> FALSE, val |-> 0]
         ELSE [ok |-> TRUE,
               val |-> IF Len(x) > 0 /\ x[1] = "-" THEN - SqlExpVal(body)
                       ELSE SqlExpVal(body)] :
            body \in {IF Len(x) > 0 /\ x[1] \in {"+", "-"} THEN Tail(x)
                      ELSE x}} : TRUE

\* The number with the digits ip before the point, the digits fp after it
\* and the exponent ex: the significand is the leading digits that
\* sqlite3AtoF keeps, the dropped digits only move the point.
SqlDigits(sign, ip, fp, ex) ==
    IF ~AllDigits(ip) \/ ~AllDigits(fp) \/ Len(ip) + Len(fp) = 0 \/ ~ex.ok
      THEN [ok |-> FALSE, val |-> 0]
    ELSE CHOOSE r \in {SqlScaled(sign, DigitsVal(SubSeq(ip \o fp, 1, k)),
                                 ex.val + Len(ip) - k) :
                          k \in {SqlKept(ip \o fp)}} : TRUE

\* The number with the mantissa mant and the exponent ex.
SqlMantissa(sign, mant, ex) ==
    CHOOSE r \in
        {IF ds = {} THEN SqlDigits(sign, mant, <<>>, ex)
         ELSE CHOOSE r1 \in
                 {SqlDigits(sign, ip, fp, ex) :
                     ip \in {SubSeq(mant, 1, d1 - 1)},
                     fp \in {SubSeq(mant, d1 + 1, Len(mant))}} : TRUE :
            ds \in {{i \in 1..Len(mant) : mant[i] = "."}},
            d1 \in {CHOOSE i \in 0..Len(mant) :
                       /\ i = 0 \/ mant[i] = "."
                       /\ \A j \in 1..Len(mant) : mant[j] = "." => i # 0 /\ i <= j}}
        : TRUE

\* The number u without its sign: a mantissa and an optional exponent.
SqlUnsigned(sign, u) ==
    CHOOSE r \in
        {IF e1 = 0 THEN SqlMantissa(sign, u, [ok |-> TRUE, val |-> 0])
         ELSE CHOOSE r1 \in
                 {SqlMantissa(sign, mant, ex) :
                     mant \in {SubSeq(u, 1, e1 - 1)},
                     ex \in {SqlExponent(SubSeq(u, e1 + 1, Len(u)))}} : TRUE :
            e1 \in {CHOOSE i \in 0..Len(u) :
                       /\ i = 0 \/ u[i] \in {"e", "E"}
                       /\ \A j \in 1..Len(u) :
                             u[j] \in {"e", "E"} => i # 0 /\ i <= j}} : TRUE

\* The INTEGER affinity of the column id applied to a TEXT parameter: a
\* text that is a number (white space, a sign, digits with an optional
\* fraction, an optional exponent) is compared as that number: a text of
\* digits within 64 bits as the integer itself, any other number as the
\* double nearest to it; any other text stays a text.  ok tells that the
\* text is compared as an integer other than 0, which is val.
SqlInteger(s) ==
    CHOOSE r \in
        {IF Atoi(t).ok THEN [ok |-> Atoi(t).val # 0, val |-> Atoi(t).val]
         ELSE IF Len(t) > 0 /\ t[1] \in {"+", "-"}
           THEN CHOOSE r1 \in
                   {SqlUnsigned(IF t[1] = "-" THEN -1 ELSE 1, u) :
                       u \in {Tail(t)}} : TRUE
           ELSE SqlUnsigned(1, t) :
            t \in {Trimmed(s)}} : TRUE

\* The row a textual id selects in WHERE id = ? (id is an INTEGER column);
\* 0, which is the id of no row (AUTOINCREMENT gives out 1, 2, ...), for a
\* text that is compared as 0, as a fraction or as a text.
RowOf(id) ==
    CHOOSE r \in {IF q.ok THEN q.val ELSE 0 : q \in {SqlInteger(id)}} : TRUE

\* db.AddTask: INSERT with an AUTOINCREMENT id.
AddTask(tbl, last, task, fault) ==
    IF fault
      THEN [err |-> <<"failed to execute insert query">>, id |-> 0,
            tbl |-> tbl, last |-> last]
      ELSE [err |-> <<"nil">>, id |-> last + 1,
            tbl |-> [i \in DOMAIN tbl \cup {last + 1} |->
                        IF i = last + 1 THEN task ELSE tbl[i]],
            last |-> last + 1]

\* db.GetTask: SELECT by id.  The task is the row; id is its column id, the
\* key of the row as a decimal text, which Scan stores in task.ID.
GetTask(tbl, id, fault) ==
    IF id = <<>>
      THEN [err |-> <<"ID must not be empty">>, task |-> NoTask, id |-> <<>>]
    ELSE IF fault
      THEN [err |-> <<"failed to scan task data">>, task |-> NoTask,
            id |-> <<>>]
    ELSE IF RowOf(id) \notin DOMAIN tbl
      THEN [err |-> <<"task with ID ", id, " not found">>, task |-> NoTask,
            id |-> <<>>]
    ELSE [err |-> <<"nil">>, task |-> tbl[RowOf(id)], id |-> Num(RowOf(id))]

\* UPDATE scheduler SET date = ? that rewrites the whole row.
UpdateDateWholeRow(tbl, next, id, fault) ==
    IF id = <<>>
      THEN [err |-> <<"task ID must not be empty">>, tbl |-> tbl]
    ELSE IF fault
      THEN [err |-> <<"failed to execute date update query">>, tbl |-> tbl]
    ELSE IF RowOf(id) \notin DOMAIN tbl
      THEN [err |-> <<"task with ID ", id, " not found">>, tbl |-> tbl]
    ELSE [err |-> <<"nil">>,
          tbl |-> [tbl EXCEPT ![RowOf(id)] = [NoTask EXCEPT !.date = next]]]

\* db.UpdateDate: UPDATE scheduler SET date = ? WHERE id = ?.
UpdateDate(tbl, next, id, fault) ==
    IF id = <<>>
      THEN [err |-> <<"task ID must not be empty">>, tbl |-> tbl]
    ELSE IF fault
      THEN [err |-> <<"failed to execute date update query">>, tbl |-> tbl]
    ELSE IF RowOf(id) \notin DOMAIN tbl
      THEN [err |-> <<"task with ID ", id, " not found">>, tbl |-> tbl]
    ELSE [err |-> <<"nil">>, tbl |-> [tbl EXCEPT ![RowOf(id)].date = next]]

\* db.UpdateTask: UPDATE of date, title, comment and repeat WHERE id = ?.
UpdateTask(tbl, id, task, fault) ==
    IF fault
      THEN [err |-> <<"failed to execute update query">>, tbl |-> tbl]
    ELSE IF RowOf(id) \notin DOMAIN tbl
      THEN [err |-> <<"task with ID ", id, " not found">>, tbl |-> tbl]
    ELSE [err |-> <<"nil">>, tbl |-> [tbl EXCEPT ![RowOf(id)] = task]]

\* db.DeleteTask: DELETE FROM scheduler WHERE id = ?.
DeleteTask(tbl, id, fault) ==
    IF id = <<>>
      THEN [err |-> <<"task ID must not be empty">>, tbl |-> tbl]
    ELSE IF fault
      THEN [err |-> <<"failed to execute delete query">>, tbl |-> tbl]
    ELSE IF RowOf(id) \notin DOMAIN tbl
      THEN [err |-> <<"no task with ID ", id, " exists in the database">>,
            tbl |-> tbl]
    ELSE [err |-> <<"nil">>,
          tbl |-> [i \in DOMAIN tbl \ {RowOf(id)} |-> tbl[i]]]

-----------------------------------------------------------------------------
(* Package handlers.  A handler that runs one SQL statement is one action; *)
(* doneTaskHandler, which reads and then writes, is two.                   *)

\* The white space of strings.TrimSpace, the 25 characters of
\* unicode.IsSpace: 0x09 to 0x0D, the space, U+0085, U+00A0, U+1680, U+2000
\* to U+200A, U+2028, U+2029, U+202F, U+205F and U+3000.  A character from
\* U+0100 on is written by its name, as in "U+2003".
GoSpace ==
    {" ", "\t", "\n", "", "\f", "\r", "", " ",
     "U+1680", "U+2000", "U+2001", "U+2002", "U+2003", "U+2004",
     "U+2005", "U+2006", "U+2007", "U+2008", "U+2009", "U+200A",
     "U+2028", "U+2029", "U+202F", "U+205F", "U+3000"}

\* strings.TrimSpace(id) == "".
IsBlank(id) == \A i \in 1..Len(id) : id[i] \in GoSpace

\* api.IsValidID.
IsValidID(id) == Atoi(id).ok

\* Package scheduler, which addTaskHandler's file imports, is not among the
\* sources.  The specification describes one AfterNow, one NextDate and one
\* date format, those of package services; scheduler's are taken to be
\* these.
schedulerAfterNow(d, n) == AfterNow(d, n)
schedulerNextDate(nw, d, rep) == NextDateFn(nw, d, rep)
schedulerParse(txt) == ParseDate(txt)

\* now.Format(scheduler.DateFormat) of now = time.Now(): the date of the
\* instant nw in the zone time.Local, loc hours ahead of UTC.
FormatLocal(nw, loc) == Format(nw + loc)

\* checkDate after the date text d1 has parsed to the time t.  AfterNow
\* truncates the two instants, which is to the UTC day.
checkParsed(task, nw, loc, d1, t) ==
    IF ~schedulerAfterNow(nw, t)
      THEN [err |-> "nil", task |-> [task EXCEPT !.date = d1]]
    ELSE IF task.repeat = <<>>
      THEN [err |-> "nil",
            task |-> [task EXCEPT !.date = FormatLocal(nw, loc)]]
    ELSE CHOOSE r \in
            {IF n.err # "nil"
               THEN [err |-> n.err, task |-> [task EXCEPT !.date = d1]]
               ELSE [err |-> "nil", task |-> [task EXCEPT !.date = n.text]] :
                n \in {schedulerNextDate(nw, d1, task.repeat)}} : TRUE

\* checkDate: the error and the task with its corrected date, at the
\* instant nw in the zone loc.
checkDate(task, nw, loc) ==
    CHOOSE r \in
        {IF ~schedulerParse(d1).ok
           THEN [err |-> "parse_date", task |-> [task EXCEPT !.date = d1]]
           ELSE checkParsed(task, nw, loc, d1, schedulerParse(d1).t) :
            d1 \in {IF task.date = <<>>
                       \/ task.date = <<"t", "o", "d", "a", "y">>
                      THEN FormatLocal(nw, loc) ELSE task.date}} : TRUE

\* Bounds of the runs of the server.
MaxTasks == 2
MaxRequests == 4
MaxTicks == 2

\* The inputs of the requests.
\* The server starts at 13:00 UTC of 10 January 2024, in UTC or in a zone
\* twelve hours ahead, where it is 01:00 of 11 January.
ClockStart == At(20240110, 13)
Zones == {0, 12}
AddBodies ==
    {[date |-> d, title |-> t, comment |-> <<>>, repeat |-> r] :
        d \in {<<>>, <<"t", "o", "d", "a", "y">>, DateText(20240105),
               DateText(20240112), DateText(20240230)},
        t \in {<<>>, <<"a">>},
        r \in {<<>>, RuleD(3), <<"q", " ", "5">>}}
ReqIDs == {<<" ">>, <<"x">>, Num(1), Num(2), Num(3)}
PutBodies ==
    AddBodies
    \cup {[b EXCEPT !.title = <<"\t", "", " ", "U+2003">>] : b \in AddBodies}
BodyIDs == {<<"x">>, Num(1), Num(2), Num(3), <<"", "1", ".", "0">>}

\* A goroutine that waits for a request.
IdleSlot == [OffSlot EXCEPT !.pc = "idle"]

\* The server has started on an empty database, in one of the time zones;
\* requests are served one after another.
ApiInit ==
    /\ tasks = <<>>
    /\ lastID = 0
    /\ clock = ClockStart
    /\ nreq = 0
    /\ reqs = [s \in Slots |-> IF s = 1 THEN IdleSlot ELSE OffSlot]
    /\ boot = NoBoot
    /\ auth = NoAuth
    /\ zone \in Zones
    /\ other = NoCall
    /\ now = 0
    /\ dstart = <<>>
    /\ repeat = <<>>
    /\ pc = "none"
    /\ date = 0
    /\ candidateDate = 0
    /\ interval = 0
    /\ weekdays = <<>>
    /\ days = <<>>
    /\ months = <<>>
    /\ iters = 0
    /\ result = <<>>
    /\ err = "nil"

\* The goroutine s takes the next request.
Accept(s) ==
    /\ reqs[s].pc = "idle"
    /\ nreq < MaxRequests
    /\ nreq' = nreq + 1

\* api.WriteJSON: the handler of request r answers with status c; e is the
\* error of its last database call.
WriteJSON(s, r, c, e) ==
    reqs' = [reqs EXCEPT ![s] = [r EXCEPT !.pc = "responded", !.code = c,
                                         !.dberr = e]]

\* addTaskHandler; form tells whether the request has the JSON content
\* type and a body that decodes.
addTaskHandler(s) ==
    /\ Accept(s)
    /\ lastID < MaxTasks
    /\ LET r == [IdleSlot EXCEPT !.op = "add"]
       IN  \/ /\ \E form \in {"text", "broken"} :
                    WriteJSON(s, r, IF form = "text" THEN 415 ELSE 400,
                              <<"nil">>)
              /\ UNCHANGED <<tasks, lastID>>
           \/ \E body \in AddBodies : \E cd \in {checkDate(body, clock, zone)} :
                 IF body.title = <<>> \/ cd.err # "nil"
                   THEN /\ WriteJSON(s, [r EXCEPT !.indate = body.date], 400,
                                     <<"nil">>)
                        /\ UNCHANGED <<tasks, lastID>>
                   ELSE \E fault \in BOOLEAN :
                           \E ins \in {AddTask(tasks, lastID, cd.task,
                                               fault)} :
                              IF ins.err # <<"nil">>
                                THEN /\ WriteJSON(
                                            s,
                                            [r EXCEPT !.indate = body.date],
                                            500, ins.err)
                                     /\ UNCHANGED <<tasks, lastID>>
                                ELSE /\ WriteJSON(
                                            s,
                                            [r EXCEPT !.indate = body.date,
                                                      !.id = Num(ins.id),
                                                      !.task = cd.task],
                                            201, <<"nil">>)
                                     /\ tasks' = ins.tbl
                                     /\ lastID' = ins.last
    /\ UNCHANGED <<clock, callVars, other, bootVars>>

\* putTaskHandler; the id of the task is a field of the body.
putTaskHandler(s) ==
    /\ Accept(s)
    /\ LET r == [IdleSlot EXCEPT !.op = "put"]
       IN  \/ /\ \E form \in {"text", "broken"} :
                    WriteJSON(s, r, IF form = "text" THEN 415 ELSE 400,
                              <<"nil">>)
              /\ UNCHANGED tasks
           \/ \E body \in PutBodies : \E cd \in {checkDate(body, clock, zone)} :
              \E id \in BodyIDs :
                 LET q == [r EXCEPT !.id = id, !.indate = body.date]
                 IN  IF IsBlank(body.title) \/ cd.err # "nil"
                       THEN WriteJSON(s, q, 400, <<"nil">>)
                            /\ UNCHANGED tasks
                       ELSE \E fault \in BOOLEAN :
                               \E u \in {UpdateTask(tasks, id, cd.task,
                                                    fault)} :
                                  IF u.err # <<"nil">>
                                    THEN WriteJSON(s, q, 500, u.err)
                                         /\ UNCHANGED tasks
                                    ELSE /\ WriteJSON(
                                                s,
                                                [q EXCEPT !.task = cd.task],
                                                200, <<"nil">>)
                                         /\ tasks' = u.tbl
    /\ UNCHANGED <<lastID, clock, callVars, other, bootVars>>

\* getTaskHandler.
getTaskHandler(s) ==
    /\ Accept(s)
    /\ \E id \in ReqIDs :
          LET r == [IdleSlot EXCEPT !.op = "get", !.id = id]
          IN  IF IsBlank(id) \/ ~IsValidID(id)
                THEN WriteJSON(s, r, 400, <<"nil">>)
                ELSE \E fault \in BOOLEAN :
                     \E g \in {GetTask(tasks, id, fault)} :
                        IF g.err # <<"nil">>
                          THEN IF g.err = <<"task with id ", id, " not found">>
                                 THEN WriteJSON(s, r, 404, g.err)
                                 ELSE WriteJSON(s, r, 500, g.err)
                          ELSE WriteJSON(s, [r EXCEPT !.task = g.task], 200,
                                         <<"nil">>)
    /\ UNCHANGED <<tasks, lastID, clock, callVars, other, bootVars>>

\* deleteTaskHandler.
deleteTaskHandler(s) ==
    /\ Accept(s)
    /\ \E id \in ReqIDs :
          LET r == [IdleSlot EXCEPT !.op = "delete", !.id = id]
          IN  IF IsBlank(id) \/ ~IsValidID(id)
                THEN WriteJSON(s, r, 400, <<"nil">>) /\ UNCHANGED tasks
                ELSE \E fault \in BOOLEAN :
                     \E d \in {DeleteTask(tasks, id, fault)} :
                        IF d.err # <<"nil">>
                          THEN /\ IF d.err = ErrNoRows
                                    THEN WriteJSON(s, r, 404, d.err)
                                    ELSE WriteJSON(s, r, 500, d.err)
                               /\ UNCHANGED tasks
                          ELSE WriteJSON(s, r, 200, <<"nil">>)
                               /\ tasks' = d.tbl
    /\ UNCHANGED <<lastID, clock, callVars, other, bootVars>>

\* doneTaskHandler, lines 19-54: the checks of the id and db.GetTask.
doneGetTask(s) ==
    /\ Accept(s)
    /\ \E id \in ReqIDs :
          LET r == [IdleSlot EXCEPT !.op = "done", !.id = id]
          IN  IF IsBlank(id) \/ ~IsValidID(id)
                THEN WriteJSON(s, r, 400, <<"nil">>)
                ELSE \E fault \in BOOLEAN :
                     \E g \in {GetTask(tasks, id, fault)} :
                        IF g.err # <<"nil">>
                          THEN IF g.err = ErrNoRows
                                 THEN WriteJSON(s, r, 404, g.err)
                                 ELSE WriteJSON(s, r, 500, g.err)
                          ELSE reqs' = [reqs EXCEPT ![s] =
                                           [r EXCEPT !.pc = "got",
                                                     !.task = g.task]]
    /\ UNCHANGED <<tasks, lastID, clock, callVars, other, bootVars>>

\* doneTaskHandler, lines 56-103: db.DeleteTask for a task without a rule,
\* NextDate and db.UpdateDate for a task with one.
doneFinish(s) ==
    /\ reqs[s].pc = "got"
    /\ \E fault \in BOOLEAN :
          \E next \in {NextDateFn(clock, reqs[s].task.date,
                                  reqs[s].task.repeat)} :
          LET r == reqs[s]
              d == DeleteTask(tasks, r.id, fault)
              u == UpdateDate(tasks, next.text, r.id, fault)
          IN  IF r.task.repeat = <<>>
                THEN IF d.err # <<"nil">>
                       THEN /\ IF d.err = ErrNoRows
                                 THEN WriteJSON(s, r, 404, d.err)
                                 ELSE WriteJSON(s, r, 500, d.err)
                            /\ UNCHANGED tasks
                       ELSE WriteJSON(s, r, 200, <<"nil">>) /\ tasks' = d.tbl
              ELSE IF next.err # "nil"
                THEN WriteJSON(s, r, 400, <<"nil">>) /\ UNCHANGED tasks
              ELSE IF u.err # <<"nil">>
                THEN WriteJSON(s, r, 500, u.err) /\ UNCHANGED tasks
              ELSE WriteJSON(s, r, 200, <<"nil">>) /\ tasks' = u.tbl
    /\ UNCHANGED <<lastID, clock, nreq, callVars, other, bootVars>>

\* The response has been sent; the goroutine waits for the next request.
Retire(s) ==
    /\ reqs[s].pc = "responded"
    /\ reqs' = [reqs EXCEPT ![s] = IdleSlot]
    /\ UNCHANGED <<tasks, lastID, clock, nreq, callVars, other, bootVars>>

\* A day passes between two statements of the server.
Tick ==
    /\ clock < ClockStart + MaxTicks * HoursPerDay
    /\ clock' = clock + HoursPerDay
    /\ UNCHANGED <<tasks, lastID, nreq, reqs, callVars, other, bootVars>>

ApiNext ==
    \/ \E s \in Slots : addTaskHandler(s)
    \/ \E s \in Slots : putTaskHandler(s)
    \/ \E s \in Slots : getTaskHandler(s)
    \/ \E s \in Slots : deleteTaskHandler(s)
    \/ \E s \in Slots : doneGetTask(s)
    \/ \E s \in Slots : doneFinish(s)
    \/ \E s \in Slots : Retire(s)
    \/ Tick

ApiSpec == ApiInit /\ [][ApiNext]_vars

-----------------------------------------------------------------------------
(* Two goroutines serve requests at the same time on a table that already  *)
(* holds a task with a rule.  A handler runs its database calls one after  *)
(* another without a transaction, so the other goroutine may run between   *)
(* db.GetTask and the call that follows it.  The two requests are served  *)
(* within one day.                                                         *)

\* The table after the add-task request {"date": "today", "title": "a",
\* "repeat": "d 3"} of 10 January 2024.
ConcTable ==
    [i \in 1..1 |->
        [NoTask EXCEPT !.date = DateText(20240110), !.title = <<"a">>,
                       !.repeat = RuleD(3)]]

\* The server has served that request and a get-task request; both
\* goroutines wait.
ConcApiInit ==
    /\ tasks = ConcTable
    /\ lastID = 1
    /\ clock = ClockStart
    /\ nreq = 2
    /\ reqs = [s \in Slots |-> IdleSlot]
    /\ boot = NoBoot
    /\ auth = NoAuth
    /\ zone = 0
    /\ other = NoCall
    /\ now = 0
    /\ dstart = <<>>
    /\ repeat = <<>>
    /\ pc = "none"
    /\ date = 0
    /\ candidateDate = 0
    /\ interval = 0
    /\ weekdays = <<>>
    /\ days = <<>>
    /\ months = <<>>
    /\ iters = 0
    /\ result = <<>>
    /\ err = "nil"

ConcApiNext ==
    \/ \E s \in Slots : addTaskHandler(s)
    \/ \E s \in Slots : putTaskHandler(s)
    \/ \E s \in Slots : getTaskHandler(s)
    \/ \E s \in Slots : deleteTaskHandler(s)
    \/ \E s \in Slots : doneGetTask(s)
    \/ \E s \in Slots : doneFinish(s)
    \/ \E s \in Slots : Retire(s)

ConcApiSpec == ConcApiInit /\ [][ConcApiNext]_vars

-----------------------------------------------------------------------------
(* The task list: GET /api/tasks on a server whose table already holds    *)
(* rows.                                                                   *)

\* The limit that tasksHandler passes to db.GetTasks.
ListLimit == 50

\* The largest number of rows of the table.
MaxRows == 52

\* A character of a text is a string: the character itself up to U+00FF,
\* and its name, as in "U+0414", from U+0100 on.  UpperCase holds the 1433
\* characters that unicode.ToLower changes (the simple lower-case mappings
\* of the Unicode Character Database) and LowerCase, at the same places,
\* what it makes of them.
UpperCase ==
    <<
      "A", "B", "C", "D", "E", "F", "G", "H", "I", "J", "K", "L", "M",
      "N", "O", "P", "Q", "R", "S", "T", "U", "V", "W", "X", "Y", "Z",
      "À", "Á", "Â", "Ã", "Ä", "Å", "Æ", "Ç", "È", "É", "Ê", "Ë", "Ì",
      "Í", "Î", "Ï", "Ð", "Ñ", "Ò", "Ó", "Ô", "Õ", "Ö", "Ø", "Ù", "Ú",
      "Û", "Ü", "Ý", "Þ",
      "U+0100", "U+0102", "U+0104", "U+0106", "U+0108", "U+010A", "U+010C",
      "U+010E", "U+0110", "U+0112", "U+0114", "U+0116", "U+0118", "U+011A",
      "U+011C", "U+011E", "U+0120", "U+0122", "U+0124", "U+0126", "U+0128",
      "U+012A", "U+012C", "U+012E", "U+0130", "U+0132", "U+0134", "U+0136",
      "U+0139", "U+013B", "U+013D", "U+013F", "U+0141", "U+0143", "U+0145",
      "U+0147", "U+014A", "U+014C", "U+014E", "U+0150", "U+0152", "U+0154",
      "U+0156", "U+0158", "U+015A", "U+015C", "U+015E", "U+0160", "U+0162",
      "U+0164", "U+0166", "U+0168", "U+016A", "U+016C", "U+016E", "U+0170",
      "U+0172", "U+0174", "U+0176", "U+0178", "U+0179", "U+017B", "U+017D",
      "U+0181", "U+0182", "U+0184", "U+0186", "U+0187", "U+0189", "U+018A",
      "U+018B", "U+018E", "U+018F", "U+0190", "U+0191", "U+0193", "U+0194",
      "U+0196", "U+0197", "U+0198", "U+019C", "U+019D", "U+019F", "U+01A0",
      "U+01A2", "U+01A4", "U+01A6", "U+01A7", "U+01A9", "U+01AC", "U+01AE",
      "U+01AF", "U+01B1", "U+01B2", "U+01B3", "U+01B5", "U+01B7", "U+01B8",
      "U+01BC", "U+01C4", "U+01C5", "U+01C7", "U+01C8", "U+01CA", "U+01CB",
      "U+01CD", "U+01CF", "U+01D1", "U+01D3", "U+01D5", "U+01D7", "U+01D9",
      "U+01DB", "U+01DE", "U+01E0", "U+01E2", "U+01E4", "U+01E6", "U+01E8",
      "U+01EA", "U+01EC", "U+01EE", "U+01F1", "U+01F2", "U+01F4", "U+01F6",
      "U+01F7", "U+01F8", "U+01FA", "U+01FC", "U+01FE", "U+0200", "U+0202",
      "U+0204", "U+0206", "U+0208", "U+020A", "U+020C", "U+020E", "U+0210",
      "U+0212", "U+0214", "U+0216", "U+0218", "U+021A", "U+021C", "U+021E",
      "U+0220", "U+0222", "U+0224", "U+0226", "U+0228", "U+022A", "U+022C",
      "U+022E", "U+0230", "U+0232", "U+023A", "U+023B", "U+023D", "U+023E",
      "U+0241", "U+0243", "U+0244", "U+0245", "U+0246", "U+0248", "U+024A",
      "U+024C", "U+024E", "U+0370", "U+0372", "U+0376", "U+037F", "U+0386",
      "U+0388", "U+0389", "U+038A", "U+038C", "U+038E", "U+038F", "U+0391",
      "U+0392", "U+0393", "U+0394", "U+0395", "U+0396", "U+0397", "U+0398",
      "U+0399", "U+039A", "U+039B", "U+039C", "U+039D", "U+039E", "U+039F",
      "U+03A0", "U+03A1", "U+03A3", "U+03A4", "U+03A5", "U+03A6", "U+03A7",
      "U+03A8", "U+03A9", "U+03AA", "U+03AB", "U+03CF", "U+03D8", "U+03DA",
      "U+03DC", "U+03DE", "U+03E0", "U+03E2", "U+03E4", "U+03E6", "U+03E8",
      "U+03EA", "U+03EC", "U+03EE", "U+03F4", "U+03F7", "U+03F9", "U+03FA",
      "U+03FD", "U+03FE", "U+03FF", "U+0400", "U+0401", "U+0402", "U+0403",
      "U+0404", "U+0405", "U+0406", "U+0407", "U+0408", "U+0409", "U+040A",
      "U+040B", "U+040C", "U+040D", "U+040E", "U+040F", "U+0410", "U+0411",
      "U+0412", "U+0413", "U+0414", "U+0415", "U+0416", "U+0417", "U+0418",
      "U+0419", "U+041A", "U+041B", "U+041C", "U+041D", "U+041E", "U+041F",
      "U+0420", "U+0421", "U+0422", "U+0423", "U+0424", "U+0425", "U+0426",
      "U+0427", "U+0428", "U+0429", "U+042A", "U+042B", "U+042C", "U+042D",
      "U+042E", "U+042F", "U+0460", "U+0462", "U+0464", "U+0466", "U+0468",
      "U+046A", "U+046C", "U+046E", "U+0470", "U+0472", "U+0474", "U+0476",
      "U+0478", "U+047A", "U+047C", "U+047E", "U+0480", "U+048A", "U+048C",
      "U+048E", "U+0490", "U+0492", "U+0494", "U+0496", "U+0498", "U+049A",
      "U+049C", "U+049E", "U+04A0", "U+04A2", "U+04A4", "U+04A6", "U+04A8",
      "U+04AA", "U+04AC", "U+04AE", "U+04B0", "U+04B2", "U+04B4", "U+04B6",
      "U+04B8", "U+04BA", "U+04BC", "U+04BE", "U+04C0", "U+04C1", "U+04C3",
      "U+04C5", "U+04C7", "U+04C9", "U+04CB", "U+04CD", "U+04D0", "U+04D2",
      "U+04D4", "U+04D6", "U+04D8", "U+04DA", "U+04DC", "U+04DE", "U+04E0",
      "U+04E2", "U+04E4", "U+04E6", "U+04E8", "U+04EA", "U+04EC", "U+04EE",
      "U+04F0", "U+04F2", "U+04F4", "U+04F6", "U+04F8", "U+04FA", "U+04FC",
      "U+04FE", "U+0500", "U+0502", "U+0504", "U+0506", "U+0508", "U+050A",
      "U+050C", "U+050E", "U+0510", "U+0512", "U+0514", "U+0516", "U+0518",
      "U+051A", "U+051C", "U+051E", "U+0520", "U+0522", "U+0524", "U+0526",
      "U+0528", "U+052A", "U+052C", "U+052E", "U+0531", "U+0532", "U+0533",
      "U+0534", "U+0535", "U+0536", "U+0537", "U+0538", "U+0539", "U+053A",
      "U+053B", "U+053C", "U+053D", "U+053E", "U+053F", "U+0540", "U+0541",
      "U+0542", "U+0543", "U+0544", "U+0545", "U+0546", "U+0547", "U+0548",
      "U+0549", "U+054A", "U+054B", "U+054C", "U+054D", "U+054E", "U+054F",
      "U+0550", "U+0551", "U+0552", "U+0553", "U+0554", "U+0555", "U+0556",
      "U+10A0", "U+10A1", "U+10A2", "U+10A3", "U+10A4", "U+10A5", "U+10A6",
      "U+10A7", "U+10A8", "U+10A9", "U+10AA", "U+10AB", "U+10AC", "U+10AD",
      "U+10AE", "U+10AF", "U+10B0", "U+10B1", "U+10B2", "U+10B3", "U+10B4",
      "U+10B5", "U+10B6", "U+10B7", "U+10B8", "U+10B9", "U+10BA", "U+10BB",
      "U+10BC", "U+10BD", "U+10BE", "U+10BF", "U+10C0", "U+10C1", "U+10C2",
      "U+10C3", "U+10C4", "U+10C5", "U+10C7", "U+10CD", "U+13A0", "U+13A1",
      "U+13A2", "U+13A3", "U+13A4", "U+13A5", "U+13A6", "U+13A7", "U+13A8",
      "U+13A9", "U+13AA", "U+13AB", "U+13AC", "U+13AD", "U+13AE", "U+13AF",
      "U+13B0", "U+13B1", "U+13B2", "U+13B3", "U+13B4", "U+13B5", "U+13B6",
      "U+13B7", "U+13B8", "U+13B9", "U+13BA", "U+13BB", "U+13BC", "U+13BD",
      "U+13BE", "U+13BF", "U+13C0", "U+13C1", "U+13C2", "U+13C3", "U+13C4",
      "U+13C5", "U+13C6", "U+13C7", "U+13C8", "U+13C9", "U+13CA", "U+13CB",
      "U+13CC", "U+13CD", "U+13CE", "U+13CF", "U+13D0", "U+13D1", "U+13D2",
      "U+13D3", "U+13D4", "U+13D5", "U+13D6", "U+13D7", "U+13D8", "U+13D9",
      "U+13DA", "U+13DB", "U+13DC", "U+13DD", "U+13DE", "U+13DF", "U+13E0",
      "U+13E1", "U+13E2", "U+13E3", "U+13E4", "U+13E5", "U+13E6", "U+13E7",
      "U+13E8", "U+13E9", "U+13EA", "U+13EB", "U+13EC", "U+13ED", "U+13EE",
      "U+13EF", "U+13F0", "U+13F1", "U+13F2", "U+13F3", "U+13F4", "U+13F5",
      "U+1C90", "U+1C91", "U+1C92", "U+1C93", "U+1C94", "U+1C95", "U+1C96",
      "U+1C97", "U+1C98", "U+1C99", "U+1C9A", "U+1C9B", "U+1C9C", "U+1C9D",
      "U+1C9E", "U+1C9F", "U+1CA0", "U+1CA1", "U+1CA2", "U+1CA3", "U+1CA4",
      "U+1CA5", "U+1CA6", "U+1CA7", "U+1CA8", "U+1CA9", "U+1CAA", "U+1CAB",
      "U+1CAC", "U+1CAD", "U+1CAE", "U+1CAF", "U+1CB0", "U+1CB1", "U+1CB2",
      "U+1CB3", "U+1CB4", "U+1CB5", "U+1CB6", "U+1CB7", "U+1CB8", "U+1CB9",
      "U+1CBA", "U+1CBD", "U+1CBE", "U+1CBF", "U+1E00", "U+1E02", "U+1E04",
      "U+1E06", "U+1E08", "U+1E0A", "U+1E0C", "U+1E0E", "U+1E10", "U+1E12",
      "U+1E14", "U+1E16", "U+1E18", "U+1E1A", "U+1E1C", "U+1E1E", "U+1E20",
      "U+1E22", "U+1E24", "U+1E26", "U+1E28", "U+1E2A", "U+1E2C", "U+1E2E",
      "U+1E30", "U+1E32", "U+1E34", "U+1E36", "U+1E38", "U+1E3A", "U+1E3C",
      "U+1E3E", "U+1E40", "U+1E42", "U+1E44", "U+1E46", "U+1E48", "U+1E4A",
      "U+1E4C", "U+1E4E", "U+1E50", "U+1E52", "U+1E54", "U+1E56", "U+1E58",
      "U+1E5A", "U+1E5C", "U+1E5E", "U+1E60", "U+1E62", "U+1E64", "U+1E66",
      "U+1E68", "U+1E6A", "U+1E6C", "U+1E6E", "U+1E70", "U+1E72", "U+1E74",
      "U+1E76", "U+1E78", "U+1E7A", "U+1E7C", "U+1E7E", "U+1E80", "U+1E82",
      "U+1E84", "U+1E86", "U+1E88", "U+1E8A", "U+1E8C", "U+1E8E", "U+1E90",
      "U+1E92", "U+1E94", "U+1E9E", "U+1EA0", "U+1EA2", "U+1EA4", "U+1EA6",
      "U+1EA8", "U+1EAA", "U+1EAC", "U+1EAE", "U+1EB0", "U+1EB2", "U+1EB4",
      "U+1EB6", "U+1EB8", "U+1EBA", "U+1EBC", "U+1EBE", "U+1EC0", "U+1EC2",
      "U+1EC4", "U+1EC6", "U+1EC8", "U+1ECA", "U+1ECC", "U+1ECE", "U+1ED0",
      "U+1ED2", "U+1ED4", "U+1ED6", "U+1ED8", "U+1EDA", "U+1EDC", "U+1EDE",
      "U+1EE0", "U+1EE2", "U+1EE4", "U+1EE6", "U+1EE8", "U+1EEA", "U+1EEC",
      "U+1EEE", "U+1EF0", "U+1EF2", "U+1EF4", "U+1EF6", "U+1EF8", "U+1EFA",
      "U+1EFC", "U+1EFE", "U+1F08", "U+1F09", "U+1F0A", "U+1F0B", "U+1F0C",
      "U+1F0D", "U+1F0E", "U+1F0F", "U+1F18", "U+1F19", "U+1F1A", "U+1F1B",
      "U+1F1C", "U+1F1D", "U+1F28", "U+1F29", "U+1F2A", "U+1F2B", "U+1F2C",
      "U+1F2D", "U+1F2E", "U+1F2F", "U+1F38", "U+1F39", "U+1F3A", "U+1F3B",
      "U+1F3C", "U+1F3D", "U+1F3E", "U+1F3F", "U+1F48", "U+1F49", "U+1F4A",
      "U+1F4B", "U+1F4C", "U+1F4D", "U+1F59", "U+1F5B", "U+1F5D", "U+1F5F",
      "U+1F68", "U+1F69", "U+1F6A", "U+1F6B", "U+1F6C", "U+1F6D", "U+1F6E",
      "U+1F6F", "U+1F88", "U+1F89", "U+1F8A", "U+1F8B", "U+1F8C", "U+1F8D",
      "U+1F8E", "U+1F8F", "U+1F98", "U+1F99", "U+1F9A", "U+1F9B", "U+1F9C",
      "U+1F9D", "U+1F9E", "U+1F9F", "U+1FA8", "U+1FA9", "U+1FAA", "U+1FAB",
      "U+1FAC", "U+1FAD", "U+1FAE", "U+1FAF", "U+1FB8", "U+1FB9", "U+1FBA",
      "U+1FBB", "U+1FBC", "U+1FC8", "U+1FC9", "U+1FCA", "U+1FCB", "U+1FCC",
      "U+1FD8", "U+1FD9", "U+1FDA", "U+1FDB", "U+1FE8", "U+1FE9", "U+1FEA",
      "U+1FEB", "U+1FEC", "U+1FF8", "U+1FF9", "U+1FFA", "U+1FFB", "U+1FFC",
      "U+2126", "U+212A", "U+212B", "U+2132", "U+2160", "U+2161", "U+2162",
      "U+2163", "U+2164", "U+2165", "U+2166", "U+2167", "U+2168", "U+2169",
      "U+216A", "U+216B", "U+216C", "U+216D", "U+216E", "U+216F", "U+2183",
      "U+24B6", "U+24B7", "U+24B8", "U+24B9", "U+24BA", "U+24BB", "U+24BC",
      "U+24BD", "U+24BE", "U+24BF", "U+24C0", "U+24C1", "U+24C2", "U+24C3",
      "U+24C4", "U+24C5", "U+24C6", "U+24C7", "U+24C8", "U+24C9", "U+24CA",
      "U+24CB", "U+24CC", "U+24CD", "U+24CE", "U+24CF", "U+2C00", "U+2C01",
      "U+2C02", "U+2C03", "U+2C04", "U+2C05", "U+2C06", "U+2C07", "U+2C08",
      "U+2C09", "U+2C0A", "U+2C0B", "U+2C0C", "U+2C0D", "U+2C0E", "U+2C0F",
      "U+2C10", "U+2C11", "U+2C12", "U+2C13", "U+2C14", "U+2C15", "U+2C16",
      "U+2C17", "U+2C18", "U+2C19", "U+2C1A", "U+2C1B", "U+2C1C", "U+2C1D",
      "U+2C1E", "U+2C1F", "U+2C20", "U+2C21", "U+2C22", "U+2C23", "U+2C24",
      "U+2C25", "U+2C26", "U+2C27", "U+2C28", "U+2C29", "U+2C2A", "U+2C2B",
      "U+2C2C", "U+2C2D", "U+2C2E", "U+2C2F", "U+2C60", "U+2C62", "U+2C63",
      "U+2C64", "U+2C67", "U+2C69", "U+2C6B", "U+2C6D", "U+2C6E", "U+2C6F",
      "U+2C70", "U+2C72", "U+2C75", "U+2C7E", "U+2C7F", "U+2C80", "U+2C82",
      "U+2C84", "U+2C86", "U+2C88", "U+2C8A", "U+2C8C", "U+2C8E", "U+2C90",
      "U+2C92", "U+2C94", "U+2C96", "U+2C98", "U+2C9A", "U+2C9C", "U+2C9E",
      "U+2CA0", "U+2CA2", "U+2CA4", "U+2CA6", "U+2CA8", "U+2CAA", "U+2CAC",
      "U+2CAE", "U+2CB0", "U+2CB2", "U+2CB4", "U+2CB6", "U+2CB8", "U+2CBA",
      "U+2CBC", "U+2CBE", "U+2CC0", "U+2CC2", "U+2CC4", "U+2CC6", "U+2CC8",
      "U+2CCA", "U+2CCC", "U+2CCE", "U+2CD0", "U+2CD2", "U+2CD4", "U+2CD6",
      "U+2CD8", "U+2CDA", "U+2CDC", "U+2CDE", "U+2CE0", "U+2CE2", "U+2CEB",
      "U+2CED", "U+2CF2", "U+A640", "U+A642", "U+A644", "U+A646", "U+A648",
      "U+A64A", "U+A64C", "U+A64E", "U+A650", "U+A652", "U+A654", "U+A656",
      "U+A658", "U+A65A", "U+A65C", "U+A65E", "U+A660", "U+A662", "U+A664",
      "U+A666", "U+A668", "U+A66A", "U+A66C", "U+A680", "U+A682", "U+A684",
      "U+A686", "U+A688", "U+A68A", "U+A68C", "U+A68E", "U+A690", "U+A692",
      "U+A694", "U+A696", "U+A698", "U+A69A", "U+A722", "U+A724", "U+A726",
      "U+A728", "U+A72A", "U+A72C", "U+A72E", "U+A732", "U+A734", "U+A736",
      "U+A738", "U+A73A", "U+A73C", "U+A73E", "U+A740", "U+A742", "U+A744",
      "U+A746", "U+A748", "U+A74A", "U+A74C", "U+A74E", "U+A750", "U+A752",
      "U+A754", "U+A756", "U+A758", "U+A75A", "U+A75C", "U+A75E", "U+A760",
      "U+A762", "U+A764", "U+A766", "U+A768", "U+A76A", "U+A76C", "U+A76E",
      "U+A779", "U+A77B", "U+A77D", "U+A77E", "U+A780", "U+A782", "U+A784",
      "U+A786", "U+A78B", "U+A78D", "U+A790", "U+A792", "U+A796", "U+A798",
      "U+A79A", "U+A79C", "U+A79E", "U+A7A0", "U+A7A2", "U+A7A4", "U+A7A6",
      "U+A7A8", "U+A7AA", "U+A7AB", "U+A7AC", "U+A7AD", "U+A7AE", "U+A7B0",
      "U+A7B1", "U+A7B2", "U+A7B3", "U+A7B4", "U+A7B6", "U+A7B8", "U+A7BA",
      "U+A7BC", "U+A7BE", "U+A7C0", "U+A7C2", "U+A7C4", "U+A7C5", "U+A7C6",
      "U+A7C7", "U+A7C9", "U+A7D0", "U+A7D6", "U+A7D8", "U+A7F5", "U+FF21",
      "U+FF22", "U+FF23", "U+FF24", "U+FF25", "U+FF26", "U+FF27", "U+FF28",
      "U+FF29", "U+FF2A", "U+FF2B", "U+FF2C", "U+FF2D", "U+FF2E", "U+FF2F",
      "U+FF30", "U+FF31", "U+FF32", "U+FF33", "U+FF34", "U+FF35", "U+FF36",
      "U+FF37", "U+FF38", "U+FF39", "U+FF3A", "U+10400", "U+10401", "U+10402",
      "U+10403", "U+10404", "U+10405", "U+10406", "U+10407", "U+10408", "U+10409",
      "U+1040A", "U+1040B", "U+1040C", "U+1040D", "U+1040E", "U+1040F", "U+10410",
      "U+10411", "U+10412", "U+10413", "U+10414", "U+10415", "U+10416", "U+10417",
      "U+10418", "U+10419", "U+1041A", "U+1041B", "U+1041C", "U+1041D", "U+1041E",
      "U+1041F", "U+10420", "U+10421", "U+10422", "U+10423", "U+10424", "U+10425",
      "U+10426", "U+10427", "U+104B0", "U+104B1", "U+104B2", "U+104B3", "U+104B4",
      "U+104B5", "U+104B6", "U+104B7", "U+104B8", "U+104B9", "U+104BA", "U+104BB",
      "U+104BC", "U+104BD", "U+104BE", "U+104BF", "U+104C0", "U+104C1", "U+104C2",
      "U+104C3", "U+104C4", "U+104C5", "U+104C6", "U+104C7", "U+104C8", "U+104C9",
      "U+104CA", "U+104CB", "U+104CC", "U+104CD", "U+104CE", "U+104CF", "U+104D0",
      "U+104D1", "U+104D2", "U+104D3", "U+10570", "U+10571", "U+10572", "U+10573",
      "U+10574", "U+10575", "U+10576", "U+10577", "U+10578", "U+10579", "U+1057A",
      "U+1057C", "U+1057D", "U+1057E", "U+1057F", "U+10580", "U+10581", "U+10582",
      "U+10583", "U+10584", "U+10585", "U+10586", "U+10587", "U+10588", "U+10589",
      "U+1058A", "U+1058C", "U+1058D", "U+1058E", "U+1058F", "U+10590", "U+10591",
      "U+10592", "U+10594", "U+10595", "U+10C80", "U+10C81", "U+10C82", "U+10C83",
      "U+10C84", "U+10C85", "U+10C86", "U+10C87", "U+10C88", "U+10C89", "U+10C8A",
      "U+10C8B", "U+10C8C", "U+10C8D", "U+10C8E", "U+10C8F", "U+10C90", "U+10C91",
      "U+10C92", "U+10C93", "U+10C94", "U+10C95", "U+10C96", "U+10C97", "U+10C98",
      "U+10C99", "U+10C9A", "U+10C9B", "U+10C9C", "U+10C9D", "U+10C9E", "U+10C9F",
      "U+10CA0", "U+10CA1", "U+10CA2", "U+10CA3", "U+10CA4", "U+10CA5", "U+10CA6",
      "U+10CA7", "U+10CA8", "U+10CA9", "U+10CAA", "U+10CAB", "U+10CAC", "U+10CAD",
      "U+10CAE", "U+10CAF", "U+10CB0", "U+10CB1", "U+10CB2", "U+118A0", "U+118A1",
      "U+118A2", "U+118A3", "U+118A4", "U+118A5", "U+118A6", "U+118A7", "U+118A8",
      "U+118A9", "U+118AA", "U+118AB", "U+118AC", "U+118AD", "U+118AE", "U+118AF",
      "U+118B0", "U+118B1", "U+118B2", "U+118B3", "U+118B4", "U+118B5", "U+118B6",
      "U+118B7", "U+118B8", "U+118B9", "U+118BA", "U+118BB", "U+118BC", "U+118BD",
      "U+118BE", "U+118BF", "U+16E40", "U+16E41", "U+16E42", "U+16E43", "U+16E44",
      "U+16E45", "U+16E46", "U+16E47", "U+16E48", "U+16E49", "U+16E4A", "U+16E4B",
      "U+16E4C", "U+16E4D", "U+16E4E", "U+16E4F", "U+16E50", "U+16E51", "U+16E52",
      "U+16E53", "U+16E54", "U+16E55", "U+16E56", "U+16E57", "U+16E58", "U+16E59",
      "U+16E5A", "U+16E5B", "U+16E5C", "U+16E5D", "U+16E5E", "U+16E5F", "U+1E900",
      "U+1E901", "U+1E902", "U+1E903", "U+1E904", "U+1E905", "U+1E906", "U+1E907",
      "U+1E908", "U+1E909", "U+1E90A", "U+1E90B", "U+1E90C", "U+1E90D", "U+1E90E",
      "U+1E90F", "U+1E910", "U+1E911", "U+1E912", "U+1E913", "U+1E914", "U+1E915",
      "U+1E916", "U+1E917", "U+1E918", "U+1E919", "U+1E91A", "U+1E91B", "U+1E91C",
      "U+1E91D", "U+1E91E", "U+1E91F", "U+1E920", "U+1E921">>
LowerCase ==
    <<
      "a", "b", "c", "d", "e", "f", "g", "h", "i", "j", "k", "l", "m",
      "n", "o", "p", "q", "r", "s", "t", "u", "v", "w", "x", "y", "z",
      "à", "á", "â", "ã", "ä", "å", "æ", "ç", "è", "é", "ê", "ë", "ì",
      "í", "î", "ï", "ð", "ñ", "ò", "ó", "ô", "õ", "ö", "ø", "ù", "ú",
      "û", "ü", "ý", "þ",
      "U+0101", "U+0103", "U+0105", "U+0107", "U+0109", "U+010B", "U+010D",
      "U+010F", "U+0111", "U+0113", "U+0115", "U+0117", "U+0119", "U+011B",
      "U+011D", "U+011F", "U+0121", "U+0123", "U+0125", "U+0127", "U+0129",
      "U+012B", "U+012D", "U+012F", "i", "U+0133", "U+0135", "U+0137",
      "U+013A", "U+013C", "U+013E", "U+0140", "U+0142", "U+0144", "U+0146",
      "U+0148", "U+014B", "U+014D", "U+014F", "U+0151", "U+0153", "U+0155",
      "U+0157", "U+0159", "U+015B", "U+015D", "U+015F", "U+0161", "U+0163",
      "U+0165", "U+0167", "U+0169", "U+016B", "U+016D", "U+016F", "U+0171",
      "U+0173", "U+0175", "U+0177", "ÿ", "U+017A", "U+017C", "U+017E",
      "U+0253", "U+0183", "U+0185", "U+0254", "U+0188", "U+0256", "U+0257",
      "U+018C", "U+01DD", "U+0259", "U+025B", "U+0192", "U+0260", "U+0263",
      "U+0269", "U+0268", "U+0199", "U+026F", "U+0272", "U+0275", "U+01A1",
      "U+01A3", "U+01A5", "U+0280", "U+01A8", "U+0283", "U+01AD", "U+0288",
      "U+01B0", "U+028A", "U+028B", "U+01B4", "U+01B6", "U+0292", "U+01B9",
      "U+01BD", "U+01C6", "U+01C6", "U+01C9", "U+01C9", "U+01CC", "U+01CC",
      "U+01CE", "U+01D0", "U+01D2", "U+01D4", "U+01D6", "U+01D8", "U+01DA",
      "U+01DC", "U+01DF", "U+01E1", "U+01E3", "U+01E5", "U+01E7", "U+01E9",
      "U+01EB", "U+01ED", "U+01EF", "U+01F3", "U+01F3", "U+01F5", "U+0195",
      "U+01BF", "U+01F9", "U+01FB", "U+01FD", "U+01FF", "U+0201", "U+0203",
      "U+0205", "U+0207", "U+0209", "U+020B", "U+020D", "U+020F", "U+0211",
      "U+0213", "U+0215", "U+0217", "U+0219", "U+021B", "U+021D", "U+021F",
      "U+019E", "U+0223", "U+0225", "U+0227", "U+0229", "U+022B", "U+022D",
      "U+022F", "U+0231", "U+0233", "U+2C65", "U+023C", "U+019A", "U+2C66",
      "U+0242", "U+0180", "U+0289", "U+028C", "U+0247", "U+0249", "U+024B",
      "U+024D", "U+024F", "U+0371", "U+0373", "U+0377", "U+03F3", "U+03AC",
      "U+03AD", "U+03AE", "U+03AF", "U+03CC", "U+03CD", "U+03CE", "U+03B1",
      "U+03B2", "U+03B3", "U+03B4", "U+03B5", "U+03B6", "U+03B7", "U+03B8",
      "U+03B9", "U+03BA", "U+03BB", "U+03BC", "U+03BD", "U+03BE", "U+03BF",
      "U+03C0", "U+03C1", "U+03C3", "U+03C4", "U+03C5", "U+03C6", "U+03C7",
      "U+03C8", "U+03C9", "U+03CA", "U+03CB", "U+03D7", "U+03D9", "U+03DB",
      "U+03DD", "U+03DF", "U+03E1", "U+03E3", "U+03E5", "U+03E7", "U+03E9",
      "U+03EB", "U+03ED", "U+03EF", "U+03B8", "U+03F8", "U+03F2", "U+03FB",
      "U+037B", "U+037C", "U+037D", "U+0450", "U+0451", "U+0452", "U+0453",
      "U+0454", "U+0455", "U+0456", "U+0457", "U+0458", "U+0459", "U+045A",
      "U+045B", "U+045C", "U+045D", "U+045E", "U+045F", "U+0430", "U+0431",
      "U+0432", "U+0433", "U+0434", "U+0435", "U+0436", "U+0437", "U+0438",
      "U+0439", "U+043A", "U+043B", "U+043C", "U+043D", "U+043E", "U+043F",
      "U+0440", "U+0441", "U+0442", "U+0443", "U+0444", "U+0445", "U+0446",
      "U+0447", "U+0448", "U+0449", "U+044A", "U+044B", "U+044C", "U+044D",
      "U+044E", "U+044F", "U+0461", "U+0463", "U+0465", "U+0467", "U+0469",
      "U+046B", "U+046D", "U+046F", "U+0471", "U+0473", "U+0475", "U+0477",
      "U+0479", "U+047B", "U+047D", "U+047F", "U+0481", "U+048B", "U+048D",
      "U+048F", "U+0491", "U+0493", "U+0495", "U+0497", "U+0499", "U+049B",
      "U+049D", "U+049F", "U+04A1", "U+04A3", "U+04A5", "U+04A7", "U+04A9",
      "U+04AB", "U+04AD", "U+04AF", "U+04B1", "U+04B3", "U+04B5", "U+04B7",
      "U+04B9", "U+04BB", "U+04BD", "U+04BF", "U+04CF", "U+04C2", "U+04C4",
      "U+04C6", "U+04C8", "U+04CA", "U+04CC", "U+04CE", "U+04D1", "U+04D3",
      "U+04D5", "U+04D7", "U+04D9", "U+04DB", "U+04DD", "U+04DF", "U+04E1",
      "U+04E3", "U+04E5", "U+04E7", "U+04E9", "U+04EB", "U+04ED", "U+04EF",
      "U+04F1", "U+04F3", "U+04F5", "U+04F7", "U+04F9", "U+04FB", "U+04FD",
      "U+04FF", "U+0501", "U+0503", "U+0505", "U+0507", "U+0509", "U+050B",
      "U+050D", "U+050F", "U+0511", "U+0513", "U+0515", "U+0517", "U+0519",
      "U+051B", "U+051D", "U+051F", "U+0521", "U+0523", "U+0525", "U+0527",
      "U+0529", "U+052B", "U+052D", "U+052F", "U+0561", "U+0562", "U+0563",
      "U+0564", "U+0565", "U+0566", "U+0567", "U+0568", "U+0569", "U+056A",
      "U+056B", "U+056C", "U+056D", "U+056E", "U+056F", "U+0570", "U+0571",
      "U+0572", "U+0573", "U+0574", "U+0575", "U+0576", "U+0577", "U+0578",
      "U+0579", "U+057A", "U+057B", "U+057C", "U+057D", "U+057E", "U+057F",
      "U+0580", "U+0581", "U+0582", "U+0583", "U+0584", "U+0585", "U+0586",
      "U+2D00", "U+2D01", "U+2D02", "U+2D03", "U+2D04", "U+2D05", "U+2D06",
      "U+2D07", "U+2D08", "U+2D09", "U+2D0A", "U+2D0B", "U+2D0C", "U+2D0D",
      "U+2D0E", "U+2D0F", "U+2D10", "U+2D11", "U+2D12", "U+2D13", "U+2D14",
      "U+2D15", "U+2D16", "U+2D17", "U+2D18", "U+2D19", "U+2D1A", "U+2D1B",
      "U+2D1C", "U+2D1D", "U+2D1E", "U+2D1F", "U+2D20", "U+2D21", "U+2D22",
      "U+2D23", "U+2D24", "U+2D25", "U+2D27", "U+2D2D", "U+AB70", "U+AB71",
      "U+AB72", "U+AB73", "U+AB74", "U+AB75", "U+AB76", "U+AB77", "U+AB78",
      "U+AB79", "U+AB7A", "U+AB7B", "U+AB7C", "U+AB7D", "U+AB7E", "U+AB7F",
      "U+AB80", "U+AB81", "U+AB82", "U+AB83", "U+AB84", "U+AB85", "U+AB86",
      "U+AB87", "U+AB88", "U+AB89", "U+AB8A", "U+AB8B", "U+AB8C", "U+AB8D",
      "U+AB8E", "U+AB8F", "U+AB90", "U+AB91", "U+AB92", "U+AB93", "U+AB94",
      "U+AB95", "U+AB96", "U+AB97", "U+AB98", "U+AB99", "U+AB9A", "U+AB9B",
      "U+AB9C", "U+AB9D", "U+AB9E", "U+AB9F", "U+ABA0", "U+ABA1", "U+ABA2",
      "U+ABA3", "U+ABA4", "U+ABA5", "U+ABA6", "U+ABA7", "U+ABA8", "U+ABA9",
      "U+ABAA", "U+ABAB", "U+ABAC", "U+ABAD", "U+ABAE", "U+ABAF", "U+ABB0",
      "U+ABB1", "U+ABB2", "U+ABB3", "U+ABB4", "U+ABB5", "U+ABB6", "U+ABB7",
      "U+ABB8", "U+ABB9", "U+ABBA", "U+ABBB", "U+ABBC", "U+ABBD", "U+ABBE",
      "U+ABBF", "U+13F8", "U+13F9", "U+13FA", "U+13FB", "U+13FC", "U+13FD",
      "U+10D0", "U+10D1", "U+10D2", "U+10D3", "U+10D4", "U+10D5", "U+10D6",
      "U+10D7", "U+10D8", "U+10D9", "U+10DA", "U+10DB", "U+10DC", "U+10DD",
      "U+10DE", "U+10DF", "U+10E0", "U+10E1", "U+10E2", "U+10E3", "U+10E4",
      "U+10E5", "U+10E6", "U+10E7", "U+10E8", "U+10E9", "U+10EA", "U+10EB",
      "U+10EC", "U+10ED", "U+10EE", "U+10EF", "U+10F0", "U+10F1", "U+10F2",
      "U+10F3", "U+10F4", "U+10F5", "U+10F6", "U+10F7", "U+10F8", "U+10F9",
      "U+10FA", "U+10FD", "U+10FE", "U+10FF", "U+1E01", "U+1E03", "U+1E05",
      "U+1E07", "U+1E09", "U+1E0B", "U+1E0D", "U+1E0F", "U+1E11", "U+1E13",
      "U+1E15", "U+1E17", "U+1E19", "U+1E1B", "U+1E1D", "U+1E1F", "U+1E21",
      "U+1E23", "U+1E25", "U+1E27", "U+1E29", "U+1E2B", "U+1E2D", "U+1E2F",
      "U+1E31", "U+1E33", "U+1E35", "U+1E37", "U+1E39", "U+1E3B", "U+1E3D",
      "U+1E3F", "U+1E41", "U+1E43", "U+1E45", "U+1E47", "U+1E49", "U+1E4B",
      "U+1E4D", "U+1E4F", "U+1E51", "U+1E53", "U+1E55", "U+1E57", "U+1E59",
      "U+1E5B", "U+1E5D", "U+1E5F", "U+1E61", "U+1E63", "U+1E65", "U+1E67",
      "U+1E69", "U+1E6B", "U+1E6D", "U+1E6F", "U+1E71", "U+1E73", "U+1E75",
      "U+1E77", "U+1E79", "U+1E7B", "U+1E7D", "U+1E7F", "U+1E81", "U+1E83",
      "U+1E85", "U+1E87", "U+1E89", "U+1E8B", "U+1E8D", "U+1E8F", "U+1E91",
      "U+1E93", "U+1E95", "ß", "U+1EA1", "U+1EA3", "U+1EA5", "U+1EA7",
      "U+1EA9", "U+1EAB", "U+1EAD", "U+1EAF", "U+1EB1", "U+1EB3", "U+1EB5",
      "U+1EB7", "U+1EB9", "U+1EBB", "U+1EBD", "U+1EBF", "U+1EC1", "U+1EC3",
      "U+1EC5", "U+1EC7", "U+1EC9", "U+1ECB", "U+1ECD", "U+1ECF", "U+1ED1",
      "U+1ED3", "U+1ED5", "U+1ED7", "U+1ED9", "U+1EDB", "U+1EDD", "U+1EDF",
      "U+1EE1", "U+1EE3", "U+1EE5", "U+1EE7", "U+1EE9", "U+1EEB", "U+1EED",
      "U+1EEF", "U+1EF1", "U+1EF3", "U+1EF5", "U+1EF7", "U+1EF9", "U+1EFB",
      "U+1EFD", "U+1EFF", "U+1F00", "U+1F01", "U+1F02", "U+1F03", "U+1F04",
      "U+1F05", "U+1F06", "U+1F07", "U+1F10", "U+1F11", "U+1F12", "U+1F13",
      "U+1F14", "U+1F15", "U+1F20", "U+1F21", "U+1F22", "U+1F23", "U+1F24",
      "U+1F25", "U+1F26", "U+1F27", "U+1F30", "U+1F31", "U+1F32", "U+1F33",
      "U+1F34", "U+1F35", "U+1F36", "U+1F37", "U+1F40", "U+1F41", "U+1F42",
      "U+1F43", "U+1F44", "U+1F45", "U+1F51", "U+1F53", "U+1F55", "U+1F57",
      "U+1F60", "U+1F61", "U+1F62", "U+1F63", "U+1F64", "U+1F65", "U+1F66",
      "U+1F67", "U+1F80", "U+1F81", "U+1F82", "U+1F83", "U+1F84", "U+1F85",
      "U+1F86", "U+1F87", "U+1F90", "U+1F91", "U+1F92", "U+1F93", "U+1F94",
      "U+1F95", "U+1F96", "U+1F97", "U+1FA0", "U+1FA1", "U+1FA2", "U+1FA3",
      "U+1FA4", "U+1FA5", "U+1FA6", "U+1FA7", "U+1FB0", "U+1FB1", "U+1F70",
      "U+1F71", "U+1FB3", "U+1F72", "U+1F73", "U+1F74", "U+1F75", "U+1FC3",
      "U+1FD0", "U+1FD1", "U+1F76", "U+1F77", "U+1FE0", "U+1FE1", "U+1F7A",
      "U+1F7B", "U+1FE5", "U+1F78", "U+1F79", "U+1F7C", "U+1F7D", "U+1FF3",
      "U+03C9", "k", "å", "U+214E", "U+2170", "U+2171", "U+2172",
      "U+2173", "U+2174", "U+2175", "U+2176", "U+2177", "U+2178", "U+2179",
      "U+217A", "U+217B", "U+217C", "U+217D", "U+217E", "U+217F", "U+2184",
      "U+24D0", "U+24D1", "U+24D2", "U+24D3", "U+24D4", "U+24D5", "U+24D6",
      "U+24D7", "U+24D8", "U+24D9", "U+24DA", "U+24DB", "U+24DC", "U+24DD",
      "U+24DE", "U+24DF", "U+24E0", "U+24E1", "U+24E2", "U+24E3", "U+24E4",
      "U+24E5", "U+24E6", "U+24E7", "U+24E8", "U+24E9", "U+2C30", "U+2C31",
      "U+2C32", "U+2C33", "U+2C34", "U+2C35", "U+2C36", "U+2C37", "U+2C38",
      "U+2C39", "U+2C3A", "U+2C3B", "U+2C3C", "U+2C3D", "U+2C3E", "U+2C3F",
      "U+2C40", "U+2C41", "U+2C42", "U+2C43", "U+2C44", "U+2C45", "U+2C46",
      "U+2C47", "U+2C48", "U+2C49", "U+2C4A", "U+2C4B", "U+2C4C", "U+2C4D",
      "U+2C4E", "U+2C4F", "U+2C50", "U+2C51", "U+2C52", "U+2C53", "U+2C54",
      "U+2C55", "U+2C56", "U+2C57", "U+2C58", "U+2C59", "U+2C5A", "U+2C5B",
      "U+2C5C", "U+2C5D", "U+2C5E", "U+2C5F", "U+2C61", "U+026B", "U+1D7D",
      "U+027D", "U+2C68", "U+2C6A", "U+2C6C", "U+0251", "U+0271", "U+0250",
      "U+0252", "U+2C73", "U+2C76", "U+023F", "U+0240", "U+2C81", "U+2C83",
      "U+2C85", "U+2C87", "U+2C89", "U+2C8B", "U+2C8D", "U+2C8F", "U+2C91",
      "U+2C93", "U+2C95", "U+2C97", "U+2C99", "U+2C9B", "U+2C9D", "U+2C9F",
      "U+2CA1", "U+2CA3", "U+2CA5", "U+2CA7", "U+2CA9", "U+2CAB", "U+2CAD",
      "U+2CAF", "U+2CB1", "U+2CB3", "U+2CB5", "U+2CB7", "U+2CB9", "U+2CBB",
      "U+2CBD", "U+2CBF", "U+2CC1", "U+2CC3", "U+2CC5", "U+2CC7", "U+2CC9",
      "U+2CCB", "U+2CCD", "U+2CCF", "U+2CD1", "U+2CD3", "U+2CD5", "U+2CD7",
      "U+2CD9", "U+2CDB", "U+2CDD", "U+2CDF", "U+2CE1", "U+2CE3", "U+2CEC",
      "U+2CEE", "U+2CF3", "U+A641", "U+A643", "U+A645", "U+A647", "U+A649",
      "U+A64B", "U+A64D", "U+A64F", "U+A651", "U+A653", "U+A655", "U+A657",
      "U+A659", "U+A65B", "U+A65D", "U+A65F", "U+A661", "U+A663", "U+A665",
      "U+A667", "U+A669", "U+A66B", "U+A66D", "U+A681", "U+A683", "U+A685",
      "U+A687", "U+A689", "U+A68B", "U+A68D", "U+A68F", "U+A691", "U+A693",
      "U+A695", "U+A697", "U+A699", "U+A69B", "U+A723", "U+A725", "U+A727",
      "U+A729", "U+A72B", "U+A72D", "U+A72F", "U+A733", "U+A735", "U+A737",
      "U+A739", "U+A73B", "U+A73D", "U+A73F", "U+A741", "U+A743", "U+A745",
      "U+A747", "U+A749", "U+A74B", "U+A74D", "U+A74F", "U+A751", "U+A753",
      "U+A755", "U+A757", "U+A759", "U+A75B", "U+A75D", "U+A75F", "U+A761",
      "U+A763", "U+A765", "U+A767", "U+A769", "U+A76B", "U+A76D", "U+A76F",
      "U+A77A", "U+A77C", "U+1D79", "U+A77F", "U+A781", "U+A783", "U+A785",
      "U+A787", "U+A78C", "U+0265", "U+A791", "U+A793", "U+A797", "U+A799",
      "U+A79B", "U+A79D", "U+A79F", "U+A7A1", "U+A7A3", "U+A7A5", "U+A7A7",
      "U+A7A9", "U+0266", "U+025C", "U+0261", "U+026C", "U+026A", "U+029E",
      "U+0287", "U+029D", "U+AB53", "U+A7B5", "U+A7B7", "U+A7B9", "U+A7BB",
      "U+A7BD", "U+A7BF", "U+A7C1", "U+A7C3", "U+A794", "U+0282", "U+1D8E",
      "U+A7C8", "U+A7CA", "U+A7D1", "U+A7D7", "U+A7D9", "U+A7F6", "U+FF41",
      "U+FF42", "U+FF43", "U+FF44", "U+FF45", "U+FF46", "U+FF47", "U+FF48",
      "U+FF49", "U+FF4A", "U+FF4B", "U+FF4C", "U+FF4D", "U+FF4E", "U+FF4F",
      "U+FF50", "U+FF51", "U+FF52", "U+FF53", "U+FF54", "U+FF55", "U+FF56",
      "U+FF57", "U+FF58", "U+FF59", "U+FF5A", "U+10428", "U+10429", "U+1042A",
      "U+1042B", "U+1042C", "U+1042D", "U+1042E", "U+1042F", "U+10430", "U+10431",
      "U+10432", "U+10433", "U+10434", "U+10435", "U+10436", "U+10437", "U+10438",
      "U+10439", "U+1043A", "U+1043B", "U+1043C", "U+1043D", "U+1043E", "U+1043F",
      "U+10440", "U+10441", "U+10442", "U+10443", "U+10444", "U+10445", "U+10446",
      "U+10447", "U+10448", "U+10449", "U+1044A", "U+1044B", "U+1044C", "U+1044D",
      "U+1044E", "U+1044F", "U+104D8", "U+104D9", "U+104DA", "U+104DB", "U+104DC",
      "U+104DD", "U+104DE", "U+104DF", "U+104E0", "U+104E1", "U+104E2", "U+104E3",
      "U+104E4", "U+104E5", "U+104E6", "U+104E7", "U+104E8", "U+104E9", "U+104EA",
      "U+104EB", "U+104EC", "U+104ED", "U+104EE", "U+104EF", "U+104F0", "U+104F1",
      "U+104F2", "U+104F3", "U+104F4", "U+104F5", "U+104F6", "U+104F7", "U+104F8",
      "U+104F9", "U+104FA", "U+104FB", "U+10597", "U+10598", "U+10599", "U+1059A",
      "U+1059B", "U+1059C", "U+1059D", "U+1059E", "U+1059F", "U+105A0", "U+105A1",
      "U+105A3", "U+105A4", "U+105A5", "U+105A6", "U+105A7", "U+105A8", "U+105A9",
      "U+105AA", "U+105AB", "U+105AC", "U+105AD", "U+105AE", "U+105AF", "U+105B0",
      "U+105B1", "U+105B3", "U+105B4", "U+105B5", "U+105B6", "U+105B7", "U+105B8",
      "U+105B9", "U+105BB", "U+105BC", "U+10CC0", "U+10CC1", "U+10CC2", "U+10CC3",
      "U+10CC4", "U+10CC5", "U+10CC6", "U+10CC7", "U+10CC8", "U+10CC9", "U+10CCA",
      "U+10CCB", "U+10CCC", "U+10CCD", "U+10CCE", "U+10CCF", "U+10CD0", "U+10CD1",
      "U+10CD2", "U+10CD3", "U+10CD4", "U+10CD5", "U+10CD6", "U+10CD7", "U+10CD8",
      "U+10CD9", "U+10CDA", "U+10CDB", "U+10CDC", "U+10CDD", "U+10CDE", "U+10CDF",
      "U+10CE0", "U+10CE1", "U+10CE2", "U+10CE3", "U+10CE4", "U+10CE5", "U+10CE6",
      "U+10CE7", "U+10CE8", "U+10CE9", "U+10CEA", "U+10CEB", "U+10CEC", "U+10CED",
      "U+10CEE", "U+10CEF", "U+10CF0", "U+10CF1", "U+10CF2", "U+118C0", "U+118C1",
      "U+118C2", "U+118C3", "U+118C4", "U+118C5", "U+118C6", "U+118C7", "U+118C8",
      "U+118C9", "U+118CA", "U+118CB", "U+118CC", "U+118CD", "U+118CE", "U+118CF",
      "U+118D0", "U+118D1", "U+118D2", "U+118D3", "U+118D4", "U+118D5", "U+118D6",
      "U+118D7", "U+118D8", "U+118D9", "U+118DA", "U+118DB", "U+118DC", "U+118DD",
      "U+118DE", "U+118DF", "U+16E60", "U+16E61", "U+16E62", "U+16E63", "U+16E64",
      "U+16E65", "U+16E66", "U+16E67", "U+16E68", "U+16E69", "U+16E6A", "U+16E6B",
      "U+16E6C", "U+16E6D", "U+16E6E", "U+16E6F", "U+16E70", "U+16E71", "U+16E72",
      "U+16E73", "U+16E74", "U+16E75", "U+16E76", "U+16E77", "U+16E78", "U+16E79",
      "U+16E7A", "U+16E7B", "U+16E7C", "U+16E7D", "U+16E7E", "U+16E7F", "U+1E922",
      "U+1E923", "U+1E924", "U+1E925", "U+1E926", "U+1E927", "U+1E928", "U+1E929",
      "U+1E92A", "U+1E92B", "U+1E92C", "U+1E92D", "U+1E92E", "U+1E92F", "U+1E930",
      "U+1E931", "U+1E932", "U+1E933", "U+1E934", "U+1E935", "U+1E936", "U+1E937",
      "U+1E938", "U+1E939", "U+1E93A", "U+1E93B", "U+1E93C", "U+1E93D", "U+1E93E",
      "U+1E93F", "U+1E940", "U+1E941", "U+1E942", "U+1E943">>

\* unicode.ToLower as a function on the characters that it changes.
UpperSet == {UpperCase[k] : k \in DOMAIN UpperCase}
LowerOf ==
    [c \in UpperSet |->
        LowerCase[CHOOSE k \in DOMAIN UpperCase : UpperCase[k] = c]]

\* strings.ToLower: every character replaced by its lower-case character.
ToLower(s) ==
    [i \in DOMAIN s |-> IF s[i] \in UpperSet THEN LowerOf[s[i]] ELSE s[i]]

\* strings.Contains.
Contains(s, sub) ==
    \E i \in 1..(Len(s) - Len(sub) + 1) : SubSeq(s, i, i + Len(sub) - 1) = sub

\* time.Parse("02.01.2006", s): two digits of day, a dot, two of month, a
\* dot and four of year.
ParseDotDate(s) ==
    IF Len(s) # 10 THEN [ok |-> FALSE, t |-> 0]
    ELSE IF s[3] # "." \/ s[6] # "." THEN [ok |-> FALSE, t |-> 0]
    ELSE ParseDate(SubSeq(s, 7, 10) \o SubSeq(s, 4, 5) \o SubSeq(s, 1, 2))

\* The n smallest elements of the set S of numbers, in ascending order.
RECURSIVE FirstOf(_, _)
FirstOf(S, n) ==
    IF n = 0 \/ S = {} THEN <<>>
    ELSE \* the smallest element first
         CHOOSE r \in {<<m>> \o FirstOf(S \ {m}, n - 1) :
                          m \in {x \in S : \A y \in S : x <= y}} : TRUE

\* db.GetTasks: SELECT ... FROM scheduler LIMIT ?.  SQLite scans the table
\* in rowid order; the slice stays nil when there is no row.
GetTasks(tbl, limit, fault) ==
    IF limit = 0 THEN [err |-> <<"limit must be greater than 0">>,
                       tasks |-> NilTasks]
    ELSE IF fault THEN [err |-> <<"query failed">>, tasks |-> NilTasks]
    ELSE CHOOSE r \in
            {[err |-> <<"nil">>,
              tasks |-> [null |-> ids = <<>>,
                         items |-> [k \in DOMAIN ids |->
                                       [id |-> ids[k], row |-> tbl[ids[k]]]]]] :
                ids \in {FirstOf(DOMAIN tbl, limit)}} : TRUE

\* tasksHandler, lines 61-81: the test of one task against the query; isDate
\* and parsedDate come from lines 48-58.
Selected(row, q, isDate, parsedDate) ==
    IF isDate
      THEN \E t1 \in {ParseDate(row.date)} :
              IF t1.ok THEN t1.t = parsedDate
              ELSE \E t2 \in {ParseDotDate(row.date)} :
                      t2.ok /\ t2.t = parsedDate
      ELSE \/ Contains(ToLower(row.title), ToLower(q))
           \/ Contains(ToLower(row.comment), ToLower(q))

\* The subsequence of the items that pass Selected.
RECURSIVE Filter(_, _, _, _)
Filter(items, q, isDate, parsedDate) ==
    IF items = <<>> THEN <<>>
    ELSE CHOOSE r \in
            {(IF Selected(items[1].row, q, isDate, parsedDate)
                THEN <<items[1]>> ELSE <<>>) \o rest :
                rest \in {Filter(Tail(items), q, isDate, parsedDate)}} : TRUE

\* tasksHandler, lines 44-83: the filter of a non-empty query.
Filtered(items, q) ==
    CHOOSE r \in
        {IF p1.ok THEN Filter(items, q, TRUE, p1.t)
         ELSE IF p2.ok THEN Filter(items, q, TRUE, p2.t)
         ELSE Filter(items, q, FALSE, 0) :
            p1 \in {ParseDate(q)}, p2 \in {ParseDotDate(q)}} : TRUE

\* The search parameters of the requests.
Searches ==
    {<<>>, <<"b">>, <<"B">>, <<"z">>, <<"D">>, <<"é">>, <<"U+0434">>,
     DateText(20240115),
     <<"1", "5", ".", "0", "1", ".", "2", "0", "2", "4">>}

\* The rows that fill the table, and the one row that differs from them.
PlainRow ==
    [NoTask EXCEPT !.date = DateText(20240112), !.title = <<"a", "d">>]
OddRow ==
    [NoTask EXCEPT !.date = DateText(20240115), !.title = <<"a">>,
                   !.comment = <<"a", "B", "É", "U+0414">>]

\* The numbers of rows of the tables.
RowCounts == (0..2) \cup ((MaxRows - 3)..MaxRows)

\* The server runs on a table that n add-task requests have filled; the
\* k-th of them, if any, stored OddRow.
ListInit ==
    /\ \E n \in RowCounts : \E k \in 0..n :
          /\ tasks = [i \in 1..n |-> IF i = k THEN OddRow ELSE PlainRow]
          /\ lastID = n
    /\ clock = ClockStart
    /\ nreq = 0
    /\ reqs = [s \in Slots |-> IF s = 1 THEN IdleSlot ELSE OffSlot]
    /\ boot = NoBoot
    /\ auth = NoAuth
    /\ zone = 0
    /\ other = NoCall
    /\ now = 0
    /\ dstart = <<>>
    /\ repeat = <<>>
    /\ pc = "none"
    /\ date = 0
    /\ candidateDate = 0
    /\ interval = 0
    /\ weekdays = <<>>
    /\ days = <<>>
    /\ months = <<>>
    /\ iters = 0
    /\ result = <<>>
    /\ err = "nil"

\* tasksHandler.
tasksHandler(s) ==
    /\ Accept(s)
    /\ \E q \in Searches, fault \in BOOLEAN :
          \E g \in {GetTasks(tasks, ListLimit, fault)} :
          LET r == [IdleSlot EXCEPT !.op = "tasks", !.search = q]
              all == IF g.tasks.null THEN <<>> ELSE g.tasks.items
          IN  IF g.err # <<"nil">>
                THEN WriteJSON(s, r, 500, g.err)
              ELSE IF q # <<>>
                THEN \E f \in {Filtered(all, q)} :
                        WriteJSON(s, [r EXCEPT !.list = [null |-> FALSE,
                                                         items |-> f]],
                                  200, <<"nil">>)
              ELSE WriteJSON(s, [r EXCEPT !.list = [null |-> FALSE,
                                                    items |-> all]],
                             200, <<"nil">>)
    /\ UNCHANGED <<tasks, lastID, clock, callVars, other, bootVars>>

ListNext ==
    \/ \E s \in Slots : tasksHandler(s)
    \/ \E s \in Slots : Retire(s)

ListSpec == ListInit /\ [][ListNext]_vars

-----------------------------------------------------------------------------
(* Package config (LoadEnv), the middleware Auth and handleSignIn.  The    *)
(* environment and the .env file are partial functions from names to       *)
(* values; a JWT is the record of what jwt.Parse looks at.                 *)

EnvNames == {"TODO_PORT", "TODO_DBFILE", "TODO_PASSWORD", "TODO_JWT_SECRET"}

\* os.Getenv: the empty text for a variable that is not set.
Getenv(e, k) == IF k \in DOMAIN e THEN e[k] ELSE ""

\* godotenv.Load: the variables of the file that the environment does not
\* already have are added to it; a missing file is an error for which
\* os.IsNotExist holds.
godotenvLoad(file, dotenv, e) ==
    IF file = "absent" THEN [err |-> "not_exist", env |-> e]
    ELSE IF file = "broken" THEN [err |-> "unreadable", env |-> e]
    ELSE [err |-> "nil",
          env |-> [k \in DOMAIN e \cup DOMAIN dotenv |->
                      IF k \in DOMAIN e THEN e[k] ELSE dotenv[k]]]

\* fmt.Sprintf("%x", sha256.Sum256(p)): a value that determines p.
Sha256Hex(p) == <<"sha256", p>>

\* jwt.Parse with the key function of Auth that accepts the HMAC methods
\* only and accepts every key.
jwtParseAnyKey(tok, secret, nw) ==
    /\ tok.alg \in {"HS256", "HS384", "HS512"}
    /\ (tok.exp = 0 \/ nw < tok.exp)

\* jwt.Parse with the key function of Auth: the token is valid when its
\* method is an HMAC method, its signature was made with secret and its
\* claim exp, when present, is later than the current time.
jwtParse(tok, secret, nw) ==
    /\ tok.alg \in {"HS256", "HS384", "HS512"}
    /\ tok.key = secret
    /\ (tok.exp = 0 \/ nw < tok.exp)

\* The inputs: what the environment and the .env file may hold.
Envs ==
    {e \in [EnvNames -> {"", "env"}] : TRUE}
DotEnvs ==
    {f \in [EnvNames -> {"", "file"}] : f["TODO_PORT"] = f["TODO_DBFILE"]}

\* The partial function of the names to which f gives a value.
Defined(f) == [k \in {n \in DOMAIN f : f[n] # ""} |-> f[k]]

\* The cookies a client may send without having signed in.
ForgedCookies ==
    {[alg |-> a, key |-> k, exp |-> x, hash |-> h] :
        a \in {"HS256", "none"},
        k \in {"env", "bad"},
        x \in {0, ClockStart - 1, ClockStart + 8},
        h \in {Sha256Hex("env"), Sha256Hex("bad"), <<>>}}
    \cup {NoCookie, [NoCookie EXCEPT !.alg = "malformed"]}

\* The process starts: main is about to call config.LoadEnv.
AuthInit ==
    /\ \E e \in Envs, file \in {"absent", "broken", "ok"}, f \in DotEnvs :
          /\ file # "ok" => f = [k \in EnvNames |-> ""]
          /\ boot = [NoBoot EXCEPT !.file = file, !.dotenv = Defined(f),
                                   !.env = Defined(e), !.pc = "start"]
    /\ auth = [NoAuth EXCEPT !.pc = "idle"]
    /\ zone = 0
    /\ tasks = <<>>
    /\ lastID = 0
    /\ clock = ClockStart
    /\ nreq = 0
    /\ reqs = [s \in Slots |-> OffSlot]
    /\ other = NoCall
    /\ now = 0
    /\ dstart = <<>>
    /\ repeat = <<>>
    /\ pc = "none"
    /\ date = 0
    /\ candidateDate = 0
    /\ interval = 0
    /\ weekdays = <<>>
    /\ days = <<>>
    /\ months = <<>>
    /\ iters = 0
    /\ result = <<>>
    /\ err = "nil"

\* config.LoadEnv, called by main.
LoadEnv ==
    /\ boot.pc = "start"
    /\ LET l == godotenvLoad(boot.file, boot.dotenv, boot.env)
       IN  IF l.err = "not_exist"
             THEN boot' = [boot EXCEPT !.pc = "loaded", !.ret = "nil"]
           ELSE IF l.err # "nil"
             THEN boot' = [boot EXCEPT !.pc = "failed", !.ret = l.err]
           ELSE boot' = [boot EXCEPT
                            !.env = l.env,
                            !.config =
                                [Port        |-> Getenv(l.env, "TODO_PORT"),
                                 DatabaseURL |-> Getenv(l.env, "TODO_DBFILE"),
                                 Password    |-> Getenv(l.env,
                                                        "TODO_PASSWORD"),
                                 JWTSecret   |-> Getenv(l.env,
                                                        "TODO_JWT_SECRET")],
                            !.pc = "loaded", !.ret = "nil"]
    /\ UNCHANGED <<auth, zone, apiVars, callVars, other>>

\* The middleware answers the request with status c.
Deny(cookie, c) ==
    auth' = [auth EXCEPT !.op = "auth", !.pc = "responded",
                         !.cookie = cookie, !.at = clock, !.code = c]

\* The middleware calls next(w, r).
Pass(cookie) ==
    auth' = [auth EXCEPT !.op = "auth", !.pc = "next", !.cookie = cookie,
                         !.at = clock, !.code = 0]

\* Auth(next): one request to a protected route.
Auth ==
    /\ boot.pc = "loaded"
    /\ auth.pc = "idle"
    /\ \E cookie \in ForgedCookies \cup {auth.issued} :
          IF boot.config.Password # ""
            THEN IF cookie = NoCookie THEN Deny(cookie, 401)
                 ELSE IF boot.config.JWTSecret = "" THEN Deny(cookie, 500)
                 ELSE IF ~jwtParse(cookie, boot.config.JWTSecret, clock)
                   THEN Deny(cookie, 401)
                 ELSE IF cookie.hash # Sha256Hex(boot.config.Password)
                   THEN Deny(cookie, 401)
                 ELSE Pass(cookie)
            ELSE Pass(cookie)
    /\ UNCHANGED <<boot, zone, apiVars, callVars, other>>

\* handleSignIn; form tells whether the body decodes.
handleSignIn ==
    /\ boot.pc = "loaded"
    /\ auth.pc = "idle"
    /\ \E form \in {"json", "broken"}, password \in {"", "env", "file", "bad"} :
          LET answer(c) == auth' = [auth EXCEPT !.op = "signin",
                                                !.pc = "responded",
                                                !.cookie = NoCookie,
                                                !.at = clock, !.code = c]
          IN  IF form = "broken" \/ password = "" THEN answer(400)
              ELSE IF boot.config.Password = "" THEN answer(500)
              ELSE IF password # boot.config.Password THEN answer(401)
              ELSE IF boot.config.JWTSecret = "" THEN answer(500)
              ELSE auth' = [auth EXCEPT
                               !.op = "signin", !.pc = "responded",
                               !.cookie = NoCookie, !.at = clock,
                               !.code = 200,
                               !.issued = [alg  |-> "HS256",
                                           key  |-> boot.config.JWTSecret,
                                           exp  |-> clock + 8,
                                           hash |-> Sha256Hex(password)]]
    /\ UNCHANGED <<boot, zone, apiVars, callVars, other>>

\* The request is over; the client keeps the token it was given.
AuthRetire ==
    /\ auth.pc \in {"next", "responded"}
    /\ auth' = [NoAuth EXCEPT !.pc = "idle", !.issued = auth.issued]
    /\ UNCHANGED <<boot, zone, apiVars, callVars, other>>

AuthNext ==
    \/ LoadEnv
    \/ Auth
    \/ handleSignIn
    \/ AuthRetire
    \/ Tick

AuthSpec == AuthInit /\ [][AuthNext]_vars

-----------------------------------------------------------------------------
(* Vocabulary of the properties: day numbers (days since 0001-01-01) of    *)
(* the arguments and of the returned text, and the rule as validated.      *)

DayNo(t)   == t \div HoursPerDay
NowDay     == DayNo(now)
StartDay   == DayNo(ParseDate(dstart).t)
ResultDay  == LET n == Len(result)
              IN  DayNo(Date(DigitsVal(SubSeq(result, 1, n - 4)),
                             DigitsVal(SubSeq(result, n - 3, n - 2)),
                             DigitsVal(SubSeq(result, n - 1, n)), 0))
Kind       == Validate(dstart, repeat).kind
Returned   == pc = "done" /\ err = "nil"
InstantOf(d) == d * HoursPerDay
ResultT    == InstantOf(ResultDay)

Max(a, b) == IF a >= b THEN a ELSE b

\* The day number d has a day of month listed in ds, where -1 and -2 stand
\* for the last and the second-to-last day of d's own month.
DayListed(d, ds) ==
    LET t   == InstantOf(d)
        len == daysIn(Year(t), Month(t))
    IN  \E j \in 1..Len(ds) :
           \/ ds[j] = Day(t)
           \/ ds[j] = -1 /\ Day(t) = len
           \/ ds[j] = -2 /\ Day(t) = len - 1

\* The day number d is in a month listed in ms (every month when ms is
\* empty).
MonthListed(d, ms) ==
    Len(ms) = 0 \/ \E i \in 1..Len(ms) : ms[i] = Month(InstantOf(d))

-----------------------------------------------------------------------------
\* C1: whenever NextDate returns a date, that date is strictly later than
\* the calendar date of now, never equal to it and never before it.
C1_ResultAfterNow ==
    Returned => /\ Len(result) >= 8
                /\ AllDigits(result)
                /\ ResultDay > NowDay

\* A call that returned the day right after now, with now at a time of day
\* later than midnight.
C1_Witness ==
    /\ Returned
    /\ ResultDay = NowDay + 1
    /\ Clock(now) > 0

\* C2: for "d n" the returned date is start + k*n days for the smallest
\* k >= 1 with start + k*n strictly after now; now=20240110,
\* start=20240101, "d 7" gives 20240115.
C2_DailySmallestStep ==
    /\ (Returned /\ Kind = "d") =>
          \E k \in 1..Max(1, NowDay - StartDay + 1) :
             LET n == Validate(dstart, repeat).interval
             IN  /\ ResultDay = StartDay + k * n
                 /\ StartDay + k * n > NowDay
                 /\ (k = 1 \/ StartDay + (k - 1) * n <= NowDay)
    /\ (/\ pc = "done"
        /\ NowDay = DayNo(At(20240110, 0))
        /\ dstart = DateText(20240101)
        /\ repeat = RuleD(7)) => (err = "nil" /\ result = DateText(20240115))

\* The call now=20240110, start=20240101, "d 7" has returned after two
\* additions.
C2_Witness ==
    /\ Returned
    /\ NowDay = DayNo(At(20240110, 0))
    /\ dstart = DateText(20240101)
    /\ repeat = RuleD(7)
    /\ iters = 2

\* C3: for "y" the returned date is start + k years, k added to the start
\* date in one calendar addition, for the smallest k >= 1 whose result is
\* strictly after now; also for a start of 29 February.
C3_YearlySingleAddition ==
    (Returned /\ Kind = "y") =>
        LET s == ParseDate(dstart).t
        IN  \E k \in 1..Max(1, Year(now) - Year(s) + 1) :
               /\ ResultDay = DayNo(AddDate(s, k, 0, 0))
               /\ DayNo(AddDate(s, k, 0, 0)) > NowDay
               /\ \A j \in 1..(k - 1) : DayNo(AddDate(s, j, 0, 0)) <= NowDay

\* C4: for "w list" the weekday of the returned date is in the list and no
\* earlier date strictly after now has a weekday of the list, for every
\* relation between start and now.
C4_WeeklyEarliest ==
    (Returned /\ Kind = "w") =>
        LET ws == Validate(dstart, repeat).weekdays
            listed(d) == \E i \in 1..Len(ws) : Weekday(InstantOf(d)) = ws[i]
        IN  /\ listed(ResultDay)
            /\ ResultDay > NowDay
            /\ \A d \in (NowDay + 1)..(ResultDay - 1) : ~listed(d)

\* C5: for "m days [months]" the returned date has a listed day of month
\* (-1 and -2 resolved against its own month), a listed month when months
\* are given, and is the earliest such date strictly after now.
C5_MonthlyEarliest ==
    (Returned /\ Kind = "m") =>
        LET ds == Validate(dstart, repeat).days
            ms == Validate(dstart, repeat).months
            listed(d) == DayListed(d, ds) /\ MonthListed(d, ms)
        IN  /\ listed(ResultDay)
            /\ ResultDay > NowDay
            /\ \A d \in (NowDay + 1)..(ResultDay - 1) : ~listed(d)

\* C6: with a month list, a candidate in a listed month is tested against
\* -1 and -2 exactly as matchesMDay tests it without a month list, so the
\* last (second-to-last) day of a listed month after now is returned.
C6_NegativeDayWithMonths ==
    [][(/\ pc = "m_loop"
        /\ Len(months) > 0
        /\ \E j \in 1..Len(days) : days[j] < 0
        /\ \E i \in 1..Len(months) : months[i] = Month(candidateDate)
        /\ matchesMDay(candidateDate, days))
       => (pc' = "return" /\ date' = candidateDate)]_vars

\* C7: for "m -1" without months the returned date is the last day of its
\* month and for "m -2" the second-to-last, February having 29 days in a
\* leap year and 28 otherwise; now=20240227, start=20240131, "m -1" gives
\* 20240229 and now=20240301, start=20240101, "m -1" gives 20240331.
C7_LastDayOfMonth ==
    LET t == ResultT
    IN  /\ (Returned /\ repeat = RuleM(<<-1>>)) =>
              Day(t) = daysIn(Year(t), Month(t))
        /\ (Returned /\ repeat = RuleM(<<-2>>)) =>
              Day(t) = daysIn(Year(t), Month(t)) - 1
        /\ (/\ pc = "done"
            /\ repeat = RuleM(<<-1>>)
            /\ NowDay = DayNo(At(20240227, 0))
            /\ dstart = DateText(20240131)) => result = DateText(20240229)
        /\ (/\ pc = "done"
            /\ repeat = RuleM(<<-1>>)
            /\ NowDay = DayNo(At(20240301, 0))
            /\ dstart = DateText(20240101)) => result = DateText(20240331)

\* "m -1" has returned 29 February 2024.
C7_Witness ==
    /\ Returned
    /\ repeat = RuleM(<<-1>>)
    /\ result = DateText(20240229)

\* C8: the monthly search always terminates: for every accepted rule
\* "m ..." the day-by-day loop reaches a date that its test accepts, so at
\* every point of the loop such a date lies ahead, within the 2921 days
\* after which every day of month that exists at all has come round again
\* (29 February 1896 to 29 February 1904).
C8_MonthlyTerminates ==
    pc = "m_loop" =>
        \E k \in 0..2921 :
            monthlyHit(AddDate(candidateDate, 0, 0, k), days, months)

\* C9: once candidateDate is past now, loopTwo performs at most 366
\* day-steps before it returns, for every valid rule, "m 29 2" included.
C9_Within366Steps ==
    (pc \in {"m_loop", "return", "done"} /\ Kind = "m" /\ err = "nil")
        => iters <= 366

\* C10: for every valid weekly rule, once candidateDate is past now the
\* weekday loop returns after testing at most 7 consecutive dates.
C10_WeeklyWithin7 ==
    (pc \in {"w_loop", "return", "done"} /\ Kind = "w" /\ err = "nil")
        => iters + 1 <= 7

\* A weekly rule has returned the seventh date it tested.
C10_Witness ==
    /\ Returned
    /\ Kind = "w"
    /\ iters + 1 = 7
    /\ Weekday(ResultT) \in
          {Validate(dstart, repeat).weekdays[i] :
              i \in 1..Len(Validate(dstart, repeat).weekdays)}

-----------------------------------------------------------------------------
(* Vocabulary of the properties about the rule text.                       *)

\* The tokens of the rule text and the elements of its i-th token.
Parts == Split(repeat, " ")
ListOf(i) == IF Len(Parts) >= i THEN Split(Parts[i], ",") ELSE <<>>

\* Some element of the list is an integer outside lo..hi.
HasIntOutside(strs, lo, hi) ==
    \E i \in 1..Len(strs) :
        Atoi(strs[i]).ok /\ (Atoi(strs[i]).val < lo \/ Atoi(strs[i]).val > hi)

\* Some element of the list is not an integer (the empty text included).
HasNonInt(strs) == \E i \in 1..Len(strs) : ~Atoi(strs[i]).ok

\* The least integer not below a / b, for b > 0.
CeilDiv(a, b) == - ((- a) \div b)

\* The length in days of the step of a daily or yearly rule, a year being
\* counted as 365 days.
StepDays == IF Kind = "d" THEN Validate(dstart, repeat).interval ELSE 365

InDailyOrYearly ==
    /\ pc \in {"d_loop", "y_loop", "return", "done"}
    /\ err = "nil"
    /\ Kind \in {"d", "y"}

\* C11: the daily and yearly searches terminate after at most
\* ceil((now - start) / interval) + 1 additions, for every start and now,
\* now earlier than start included.
C11_AdditionsBound ==
    (InDailyOrYearly /\ pc \in {"return", "done"}) =>
        iters <= CeilDiv(NowDay - StartDay, StepDays) + 1

\* C11 amended: the daily and yearly searches perform at least one addition
\* and at most max(1, ceil((now - start) / interval) + 1) additions.
C11_AdditionsBoundFromOne ==
    /\ InDailyOrYearly =>
          iters <= Max(1, CeilDiv(NowDay - StartDay, StepDays) + 1)
    /\ (Returned /\ Kind \in {"d", "y"}) => iters >= 1

\* A daily rule whose start lies more than one interval after now has
\* returned after its single addition.
C11_Witness ==
    /\ Returned
    /\ Kind = "d"
    /\ CeilDiv(NowDay - StartDay, StepDays) + 1 < 1
    /\ iters = 1

\* C12: a monthly rule whose day list contains 0 is rejected with an
\* out-of-range failure and no date, before any search begins.
C12_ZeroDayRejected ==
    (/\ pc # "start"
     /\ ParseDate(dstart).ok
     /\ Parts[1] = <<"m">>
     /\ \E i \in 1..Len(ListOf(2)) :
           Atoi(ListOf(2)[i]).ok /\ Atoi(ListOf(2)[i]).val = 0)
    => (pc = "done" /\ err = "m_day_range" /\ result = <<>>)

\* The rule has a numeric field outside its range: the interval of "d"
\* outside [1, 400], a weekday outside [1, 7], a day of month outside
\* [-2, 31] or a month outside [1, 12].
OutOfRange ==
    \/ Parts[1] = <<"d">> /\ Len(Parts) = 2 /\ HasIntOutside(ListOf(2), 1, 400)
    \/ Parts[1] = <<"w">> /\ HasIntOutside(ListOf(2), 1, 7)
    \/ Parts[1] = <<"m">> /\ HasIntOutside(ListOf(2), -2, 31)
    \/ Parts[1] = <<"m">> /\ HasIntOutside(ListOf(3), 1, 12)

\* C13: NextDate returns a failure and no date whenever a numeric field is
\* outside its range; one such element anywhere in a comma list rejects the
\* whole rule.
C13_OutOfRangeRejected ==
    (pc # "start" /\ OutOfRange) =>
        (pc = "done" /\ err # "nil" /\ result = <<>>)

\* "w 1,8" has been rejected because of its second element.
C13_Witness ==
    /\ pc = "done"
    /\ repeat = RuleW(<<1, 8>>)
    /\ ParseDate(dstart).ok
    /\ err = "w_value"
    /\ result = <<>>

\* The text is a date in the form YYYYMMDD.
IsDateText(s) ==
    /\ Len(s) = 8
    /\ AllDigits(s)
    /\ DigitsVal(SubSeq(s, 5, 6)) \in 1..12
    /\ DigitsVal(SubSeq(s, 7, 8)) \in
          1..daysIn(DigitsVal(SubSeq(s, 1, 4)), DigitsVal(SubSeq(s, 5, 6)))

\* C14: NextDate returns a failure and an empty text when the start text is
\* not a date, when the rule is empty, or when the first token of the rule is
\* not d, y, w or m; no outcome carries both a date and a failure.
C14_InputFailures ==
    pc = "done" =>
        /\ ~IsDateText(dstart) => err = "parse_date"
        /\ (IsDateText(dstart) /\ repeat = <<>>) => err = "rule_missing"
        /\ (/\ IsDateText(dstart)
            /\ repeat # <<>>
            /\ Parts[1] \notin {<<"d">>, <<"y">>, <<"w">>, <<"m">>})
           => err = "unsupported"
        /\ err # "nil" => result = <<>>
        /\ err = "nil" => result # <<>>

\* "q 5" has been rejected as an unknown kind of rule.
C14_Witness ==
    /\ pc = "done"
    /\ repeat = <<"q", " ", "5">>
    /\ err = "unsupported"
    /\ result = <<>>

\* The rule lacks a required part or has a list with an element that is not
\* an integer.
Malformed ==
    \/ Parts[1] = <<"d">> /\ (Len(Parts) # 2 \/ HasNonInt(ListOf(2)))
    \/ Parts[1] \in {<<"w">>, <<"m">>}
          /\ (Len(Parts) < 2 \/ HasNonInt(ListOf(2)))
    \/ Parts[1] = <<"m">> /\ HasNonInt(ListOf(3))

\* C15: rules with missing or malformed parts are rejected, so after a
\* successful parsing the interval is set and the lists of weekdays and of
\* days are not empty.
C15_MalformedRejected ==
    /\ (pc # "start" /\ Malformed) =>
          (pc = "done" /\ err # "nil" /\ result = <<>>)
    /\ (pc # "start" /\ err = "nil") =>
          /\ Kind = "d" => interval >= 1
          /\ Kind = "w" => Len(weekdays) >= 1
          /\ Kind = "m" => Len(days) >= 1

\* "w 1,,2" has been rejected because of its empty element.
C15_Witness ==
    /\ pc = "done"
    /\ repeat = <<"w", " ", "1", ",", ",", "2">>
    /\ ParseDate(dstart).ok
    /\ err = "w_value"

\* The weekday of day number d counted from Monday = 1 to Sunday = 7;
\* 1 January 2024 is a Monday.
IsoWeekday(d) == ((d - DayNo(At(20240101, 0))) % 7) + 1

\* C16: for "w 7" the returned date is a Sunday and for "w k", k in 1..6,
\* it is the k-th day of the week counted from Monday = 1.
C16_WeekdayCodes ==
    \A k \in 1..7 :
        (Returned /\ repeat = RuleW(<<k>>)) => IsoWeekday(ResultDay) = k

\* "w 7" has returned a Sunday.
C16_Witness ==
    /\ Returned
    /\ repeat = RuleW(<<7>>)
    /\ IsoWeekday(ResultDay) = 7

\* C17: every returned text is exactly 8 digits YYYYMMDD and parses back,
\* with the same format, to the date that was formatted, also for start
\* dates near the last year of four digits.
C17_EightDigitRoundTrip ==
    Returned =>
        /\ Len(result) = 8
        /\ AllDigits(result)
        /\ ParseDate(result).ok
        /\ ParseDate(result).t = date

\* C18: in every interleaving of two NextDate calls each call returns what
\* NextDate returns for its own arguments when run alone, and two calls with
\* equal arguments return equal outcomes.
C18_InterleavingIndependent ==
    /\ pc = "done" =>
          [text |-> result, err |-> err] = NextDateFn(now, dstart, repeat)
    /\ other.pc = "done" =>
          [text |-> other.result, err |-> other.err]
              = NextDateFn(other.now, other.dstart, other.repeat)
    /\ (/\ pc = "done"
        /\ other.pc = "done"
        /\ <<now, dstart, repeat>>
              = <<other.now, other.dstart, other.repeat>>)
       => (result = other.result /\ err = other.err)

\* Two calls with different rules have both returned a date after each of
\* them had been suspended in the middle of its search.
C18_Witness ==
    /\ pc = "done"
    /\ other.pc = "done"
    /\ err = "nil"
    /\ other.err = "nil"
    /\ other.mine
    /\ other.preempted
    /\ repeat # other.repeat
    /\ result # other.result

\* The errors with which the database tells that no row has the id.
NotFoundErrors(id) ==
    {<<"task with ID ", id, " not found">>,
     <<"no task with ID ", id, " exists in the database">>}

\* C19: the second half of a done request deletes the task when its rule is
\* empty; when the rule is not empty it keeps the task, replaces its date by
\* NextDate(current time, task date, task repeat) and leaves its title,
\* comment and repeat unchanged; when NextDate fails the table is unchanged
\* and the answer is 400.  The first half and every failing request leave
\* the table unchanged.
C19_DoneEffect ==
    [][\A s \in Slots :
          /\ (reqs[s].pc = "idle" /\ reqs'[s].op = "done") => tasks' = tasks
          /\ (reqs[s].pc = "got" /\ reqs'[s].pc = "responded") =>
                \A next \in {NextDateFn(clock, reqs[s].task.date,
                                         reqs[s].task.repeat)} :
                LET id   == RowOf(reqs[s].id)
                    t    == reqs[s].task
                    code == reqs'[s].code
                IN  /\ (t.repeat = <<>> /\ code = 200) =>
                          /\ id \in DOMAIN tasks
                          /\ tasks' = [i \in DOMAIN tasks \ {id} |-> tasks[i]]
                    /\ (t.repeat # <<>> /\ next.err = "nil" /\ code = 200) =>
                          /\ id \in DOMAIN tasks
                          /\ tasks' = [tasks EXCEPT ![id].date = next.text]
                    /\ (t.repeat # <<>> /\ next.err # "nil") =>
                          (code = 400 /\ tasks' = tasks)
                    /\ code # 200 => tasks' = tasks
                    /\ (id \in DOMAIN tasks
                        /\ reqs'[s].dberr \notin
                              {<<"failed to execute delete query">>,
                               <<"failed to execute date update query">>}
                        /\ (t.repeat = <<>> \/ next.err = "nil"))
                       => code = 200]_vars

\* A done request on a task with a rule has been answered 200 and the task
\* is stored with the date NextDate gives, later than the date it had.
C19_Witness ==
    \E s \in Slots :
        /\ reqs[s].pc = "responded"
        /\ reqs[s].op = "done"
        /\ reqs[s].code = 200
        /\ reqs[s].task.repeat # <<>>
        /\ RowOf(reqs[s].id) \in DOMAIN tasks
        /\ tasks[RowOf(reqs[s].id)] =
              [reqs[s].task EXCEPT !.date =
                  NextDateFn(clock, reqs[s].task.date,
                             reqs[s].task.repeat).text]
        /\ tasks[RowOf(reqs[s].id)].date # reqs[s].task.date

\* C20: a get, delete or done request with a well-formed numeric id that
\* matches no stored task is answered 404, and 500 is the answer only to
\* other database errors.
C20_MissingTaskIs404 ==
    \A s \in Slots :
        (/\ reqs[s].pc = "responded"
         /\ reqs[s].op \in {"get", "delete", "done"}
         /\ IsValidID(reqs[s].id))
        => /\ reqs[s].dberr \in NotFoundErrors(reqs[s].id)
                => reqs[s].code = 404
           /\ reqs[s].code = 500
                => reqs[s].dberr \notin NotFoundErrors(reqs[s].id)

\* The search loops of NextDate.
InSearch ==
    pc \in {"d_loop", "y_loop", "w_advance", "w_loop", "m_advance", "m_loop",
            "return"}

\* C21: a failure of NextDate is raised before any search step: when a
\* failure is returned no loop iteration has been executed, a failure is
\* only ever raised by the validation prefix, and when a search loop runs
\* the whole rule, the optional month list included, has been validated.
C21_ValidationBeforeSearch ==
    /\ (pc = "done" /\ err # "nil") =>
          (iters = 0 /\ candidateDate = 0 /\ result = <<>>)
    /\ InSearch =>
          /\ err = "nil"
          /\ Validate(dstart, repeat).err = "nil"
          /\ IsDateText(dstart)
          /\ repeat # <<>>
          /\ ~Malformed
          /\ ~OutOfRange

\* "m 1 13" has been rejected for its month list without any search step.
C21_Witness ==
    /\ pc = "done"
    /\ repeat = RuleMM(<<1>>, <<13>>)
    /\ ParseDate(dstart).ok
    /\ err = "m_month_range"
    /\ iters = 0
    /\ candidateDate = 0

\* C22: in the weekly and monthly searches the first date tested against
\* the pattern is max(start + 2 days, now + 1 day); start + 1 day is never
\* tested and never returned, so with now equal to start the date now + 1
\* is skipped.
C22_FirstTestedDate ==
    /\ (pc \in {"w_loop", "m_loop"} /\ iters = 0) =>
          DayNo(candidateDate) = Max(StartDay + 2, NowDay + 1)
    /\ pc \in {"w_loop", "m_loop"} =>
          DayNo(candidateDate) >= Max(StartDay + 2, NowDay + 1)
    /\ (Returned /\ Kind \in {"w", "m"}) =>
          ResultDay >= Max(StartDay + 2, NowDay + 1)

\* With now equal to start, "w 2" from Monday 1 January 2024 has returned
\* Tuesday 9 January: Tuesday 2 January (now + 1) was skipped.
C22_Witness ==
    /\ Returned
    /\ repeat = RuleW(<<2>>)
    /\ dstart = DateText(20240101)
    /\ NowDay = StartDay
    /\ result = DateText(20240109)

\* C23: for every kind of rule and every now, the returned date is strictly
\* later than the start date.
C23_AfterStart ==
    Returned => ResultDay > StartDay

\* A rule whose start is later than now has returned a date later than its
\* start.
C23_Witness ==
    /\ Returned
    /\ NowDay < StartDay
    /\ ResultDay > StartDay

\* C24: when no .env file exists LoadEnv returns nil and the variables of
\* package config hold the values of TODO_PORT, TODO_DBFILE, TODO_PASSWORD
\* and TODO_JWT_SECRET of the environment of the process.
C24_EnvFallback ==
    (boot.pc = "loaded" /\ boot.file = "absent") =>
        /\ boot.ret = "nil"
        /\ boot.config.Port = Getenv(boot.env, "TODO_PORT")
        /\ boot.config.DatabaseURL = Getenv(boot.env, "TODO_DBFILE")
        /\ boot.config.Password = Getenv(boot.env, "TODO_PASSWORD")
        /\ boot.config.JWTSecret = Getenv(boot.env, "TODO_JWT_SECRET")

\* The cookie holds a JWT with an HMAC signature made with the configured
\* secret, not expired at the time of the request, whose password_hash is
\* the SHA-256 of the configured password.
GoodCookie ==
    /\ auth.cookie.alg \in {"HS256", "HS384", "HS512"}
    /\ boot.config.JWTSecret # ""
    /\ auth.cookie.key = boot.config.JWTSecret
    /\ (auth.cookie.exp = 0 \/ auth.at < auth.cookie.exp)
    /\ auth.cookie.hash = Sha256Hex(boot.config.Password)

\* C25: with a password configured, Auth calls the protected handler exactly
\* for the requests whose cookie holds a valid, unexpired, HMAC-signed JWT
\* with the hash of the configured password; every other request is answered
\* 401, or 500 when the secret is not configured, and the handler is not
\* called.  With no password configured every request reaches the handler.
C25_AuthGate ==
    (auth.op = "auth" /\ auth.pc \in {"next", "responded"}) =>
        /\ boot.config.Password = "" => auth.pc = "next"
        /\ boot.config.Password # "" =>
              /\ auth.pc = "next" <=> GoodCookie
              /\ auth.pc = "responded" =>
                    /\ auth.code \in {401, 500}
                    /\ auth.code = 500 => boot.config.JWTSecret = ""

\* With a password configured, a request with the token given by the
\* sign-in has reached the handler.
C25_Witness ==
    /\ auth.op = "auth"
    /\ auth.pc = "next"
    /\ boot.config.Password # ""
    /\ auth.cookie = auth.issued
    /\ auth.issued # NoCookie

\* The day number of a date text.
TextDay(txt) == DayNo(ParseDate(txt).t)

\* What checkDate makes of the date text ind of a request at the instant nw
\* in the zone loc: t is the task after checkDate.  Today is the date that
\* the server itself writes for "today", the local date.
CheckedDate(ind, t, nw, loc) ==
    \A today \in {DayNo(nw + loc)} :
        /\ IsDateText(t.date)
        /\ TextDay(t.date) >= today
        /\ ind \in {<<>>, <<"t", "o", "d", "a", "y">>} =>
              TextDay(t.date) = today
        /\ IsDateText(ind) =>
              /\ TextDay(ind) >= today => t.date = ind
              /\ (TextDay(ind) < today /\ t.repeat = <<>>) =>
                    TextDay(t.date) = today
              /\ (TextDay(ind) < today /\ t.repeat # <<>>) =>
                    \A n \in {NextDateFn(nw, ind, t.repeat)} :
                        n.err = "nil" /\ t.date = n.text

\* C26: when add-task or update-task succeeds, the date of the task is a
\* valid YYYYMMDD date not earlier than today: an empty date or "today"
\* has become today, a date of today or later is unchanged, a past date
\* without a rule has become today and a past date with a rule has become
\* NextDate(now, date, repeat).
C26_CheckedDate ==
    [][\A s \in Slots :
          (/\ reqs[s].pc = "idle"
           /\ reqs'[s].pc = "responded"
           /\ reqs'[s].op \in {"add", "put"}
           /\ reqs'[s].code \in {200, 201})
          => CheckedDate(reqs'[s].indate, reqs'[s].task, clock, zone)]_vars

\* C27: every stored task has a repeat field that is empty or a rule that
\* NextDate accepts, whatever its date, and a done request on a stored task
\* is never answered 400.
C27_StoredRepeatValid ==
    /\ \A id \in DOMAIN tasks :
          \/ tasks[id].repeat = <<>>
          \/ Validate(tasks[id].date, tasks[id].repeat).err = "nil"
    /\ \A s \in Slots :
          (/\ reqs[s].pc = "responded"
           /\ reqs[s].op = "done"
           /\ ~IsBlank(reqs[s].id)
           /\ IsValidID(reqs[s].id))
          => reqs[s].code # 400

\* C28: a done request answered 200 on a task with a rule leaves the task
\* stored with a date strictly later than its previous date and than the
\* current day.
C28_DoneAdvances ==
    [][\A s \in Slots :
          (/\ reqs[s].pc = "got"
           /\ reqs'[s].pc = "responded"
           /\ reqs[s].task.repeat # <<>>
           /\ reqs'[s].code = 200)
          => /\ RowOf(reqs[s].id) \in DOMAIN tasks
             /\ RowOf(reqs[s].id) \in DOMAIN tasks'
             /\ TextDay(tasks'[RowOf(reqs[s].id)].date)
                   > TextDay(tasks[RowOf(reqs[s].id)].date)
             /\ TextDay(tasks'[RowOf(reqs[s].id)].date) > DayNo(clock)]_vars

\* The query q matches the row: its title or comment contains q without
\* regard to case, or q is a date and the date of the row is that day.
Matches(row, q) ==
    \/ Contains(ToLower(row.title), ToLower(q))
    \/ Contains(ToLower(row.comment), ToLower(q))
    \/ \E p \in {ParseDate(q), ParseDotDate(q)} :
          /\ p.ok
          /\ IsDateText(row.date)
          /\ TextDay(row.date) = DayNo(p.t)

\* The ids of the stored rows that match q.
Matching(q) == {i \in DOMAIN tasks : Matches(tasks[i], q)}

\* C30: a task list answered 200 to a non-empty search holds only stored
\* tasks that match the query, holds each of them when at most 50 match,
\* holds no more than 50 tasks and is not null.
C30_SearchExact ==
    \A s \in Slots :
        (/\ reqs[s].pc = "responded"
         /\ reqs[s].op = "tasks"
         /\ reqs[s].code = 200
         /\ reqs[s].search # <<>>)
        => \A l \in {reqs[s].list} : \A m \in {Matching(reqs[s].search)} :
              /\ ~l.null
              /\ Len(l.items) <= ListLimit
              /\ \A k \in DOMAIN l.items :
                    /\ l.items[k].id \in m
                    /\ l.items[k].row = tasks[l.items[k].id]
              /\ Cardinality(m) <= ListLimit
                    => \A i \in m : \E k \in DOMAIN l.items :
                                       l.items[k].id = i

\* C29: when two done requests on the same task with a rule have run at the
\* same time and both are answered 200, they have taken effect one after
\* the other: one of them read the date that the other had written, and the
\* stored date is later than both dates read, so that the date has advanced
\* twice.
C29_DonesSerializable ==
    (/\ \A s \in Slots :
           /\ reqs[s].pc = "responded"
           /\ reqs[s].op = "done"
           /\ reqs[s].code = 200
           /\ reqs[s].task.repeat # <<>>
     /\ RowOf(reqs[1].id) = RowOf(reqs[2].id))
    => /\ RowOf(reqs[1].id) \in DOMAIN tasks
       /\ \E a \in Slots : \E b \in Slots \ {a} :
             /\ TextDay(reqs[a].task.date) < TextDay(reqs[b].task.date)
             /\ TextDay(reqs[b].task.date)
                   < TextDay(tasks[RowOf(reqs[1].id)].date)

====
